---- MODULE Spec2Model ----
(***************************************************************************)
(* Crop-mutation layout engine (workload mode): the placement state       *)
(* (Grid, CropRegistry, MutationRegistry, empty zones), the feasibility   *)
(* checker, the Placer, the PlacementScorer, and the solvers that drive   *)
(* them (GreedySolver, BulkPlacer, GeneticOptimizer, SimulatedAnnealing,  *)
(* MultiStrategyOptimizer).                                                *)
(*                                                                         *)
(* Cells are pairs <<x, y>>.  Scores are kept as exact integers by        *)
(* scaling (see ScaledScore); candidate lists are sorted with a stable    *)
(* sort, as Array.prototype.sort is.                                       *)
(***************************************************************************)
EXTENDS Integers, Sequences, FiniteSets, TLC

\* ------------------------------------------------------------------------
\* Bounds of the model
\* ------------------------------------------------------------------------
MaxQuantity == 3

MaxIterations == 2

MaxPopulation == 3

MaxGenerations == 1

\* ------------------------------------------------------------------------
\* Generic helpers
\* ------------------------------------------------------------------------
Abs(n) == IF n < 0 THEN -n ELSE n

Max2(a, b) == IF a >= b THEN a ELSE b

Min2(a, b) == IF a <= b THEN a ELSE b

Range(s) == {s[i] : i \in DOMAIN s}

RECURSIVE SumSeq(_)
SumSeq(s) == IF s = <<>> THEN 0 ELSE s[1] + SumSeq(Tail(s))

\* position (1-based) of the first element of s equal to e, 0 when absent
IndexOf(s, e) ==
    IF \E i \in DOMAIN s : s[i] = e
    THEN CHOOSE i \in DOMAIN s : s[i] = e /\ \A j \in 1..(i - 1) : s[j] # e
    ELSE 0

\* Array.prototype.sort((a, b) => b.score - a.score): stable, descending.
InsertDesc(sorted, e) ==
    LET k == Cardinality({i \in DOMAIN sorted : sorted[i].score >= e.score})
    IN  SubSeq(sorted, 1, k) \o <<e>> \o SubSeq(sorted, k + 1, Len(sorted))

\* the place of s[i] once sorted: after every element with a greater score and
\* every earlier element with the same score
RankDesc(s, i) ==
    Cardinality({j \in DOMAIN s : s[j].score > s[i].score
                                     \/ (s[j].score = s[i].score /\ j < i)}) + 1

StableSortDesc(s) ==
    LET rank == [i \in DOMAIN s |-> RankDesc(s, i)]
    IN  [k \in 1..Len(s) |-> s[CHOOSE i \in DOMAIN s : rank[i] = k]]

\* ------------------------------------------------------------------------
\* Catalog data (data/mutationsData.ts, data/constants.ts)
\* ------------------------------------------------------------------------
GRID_SIZE == 10

BASE_CROPS ==
    {"wheat", "potato", "carrot", "pumpkin", "melon", "cocoa_beans", "sugar_cane",
     "cactus", "nether_wart", "red_mushroom", "brown_mushroom", "moonflower",
     "sunflower", "wild_rose"}

EXTRA_CONDITIONS == {"fire", "dead_plant", "fermento"}

\* A condition whose value is a string (the "special" rules) has numeric = FALSE.
MUTATIONS_DATA == <<
    [id |-> "ashwreath", size |-> <<1, 1>>, effects |-> <<"improved_harvest_boost", "xp_loss">>,
     conditions |-> <<[key |-> "nether_wart", value |-> 4, numeric |-> TRUE], [key |-> "fire", value |-> 4, numeric |-> TRUE]>>],
    [id |-> "choconut", size |-> <<1, 1>>, effects |-> <<"immunity">>,
     conditions |-> <<[key |-> "cocoa_beans", value |-> 4, numeric |-> TRUE]>>],
    [id |-> "dustgrain", size |-> <<1, 1>>, effects |-> <<"harvest_boost">>,
     conditions |-> <<[key |-> "wheat", value |-> 4, numeric |-> TRUE]>>],
    [id |-> "gloomgourd", size |-> <<1, 1>>, effects |-> <<"water_retain", "bonus_drops">>,
     conditions |-> <<[key |-> "pumpkin", value |-> 1, numeric |-> TRUE], [key |-> "melon", value |-> 1, numeric |-> TRUE]>>],
    [id |-> "lonelily", size |-> <<1, 1>>, effects |-> <<"bonus_drops">>,
     conditions |-> <<[key |-> "adjacent_crops", value |-> 0, numeric |-> TRUE]>>],
    [id |-> "scourroot", size |-> <<1, 1>>, effects |-> <<"immunity", "xp_boost">>,
     conditions |-> <<[key |-> "potato", value |-> 2, numeric |-> TRUE], [key |-> "carrot", value |-> 2, numeric |-> TRUE]>>],
    [id |-> "shadevine", size |-> <<1, 1>>, effects |-> <<"improved_water_retain", "improved_xp_boost", "harvest_loss">>,
     conditions |-> <<[key |-> "cactus", value |-> 2, numeric |-> TRUE], [key |-> "sugar_cane", value |-> 2, numeric |-> TRUE]>>],
    [id |-> "veilshroom", size |-> <<1, 1>>, effects |-> <<"improved_harvest_boost", "water_drain">>,
     conditions |-> <<[key |-> "red_mushroom", value |-> 2, numeric |-> TRUE], [key |-> "brown_mushroom", value |-> 2, numeric |-> TRUE]>>],
    [id |-> "witherbloom", size |-> <<1, 1>>, effects |-> <<"effect_spread">>,
     conditions |-> <<[key |-> "dead_plant", value |-> 8, numeric |-> TRUE]>>],
    [id |-> "chocoberry", size |-> <<1, 1>>, effects |-> <<"water_retain">>,
     conditions |-> <<[key |-> "choconut", value |-> 6, numeric |-> TRUE], [key |-> "gloomgourd", value |-> 2, numeric |-> TRUE]>>],
    [id |-> "cindershade", size |-> <<1, 1>>, effects |-> <<"effect_spread", "improved_harvest_boost", "xp_loss">>,
     conditions |-> <<[key |-> "ashwreath", value |-> 4, numeric |-> TRUE], [key |-> "witherbloom", value |-> 4, numeric |-> TRUE]>>],
    [id |-> "coalroot", size |-> <<1, 1>>, effects |-> <<"xp_boost">>,
     conditions |-> <<[key |-> "ashwreath", value |-> 5, numeric |-> TRUE], [key |-> "scourroot", value |-> 3, numeric |-> TRUE]>>],
    [id |-> "creambloom", size |-> <<1, 1>>, effects |-> <<"immunity">>,
     conditions |-> <<[key |-> "choconut", value |-> 8, numeric |-> TRUE]>>],
    [id |-> "duskbloom", size |-> <<1, 1>>, effects |-> <<"bonus_drops">>,
     conditions |-> <<[key |-> "moonflower", value |-> 2, numeric |-> TRUE], [key |-> "shadevine", value |-> 2, numeric |-> TRUE], [key |-> "sunflower", value |-> 2, numeric |-> TRUE], [key |-> "dustgrain", value |-> 2, numeric |-> TRUE]>>],
    [id |-> "thornshade", size |-> <<1, 1>>, effects |-> <<"effect_spread">>,
     conditions |-> <<[key |-> "wild_rose", value |-> 4, numeric |-> TRUE], [key |-> "veilshroom", value |-> 4, numeric |-> TRUE]>>],
    [id |-> "blastberry", size |-> <<1, 1>>, effects |-> <<"immunity", "improved_harvest_boost", "xp_loss">>,
     conditions |-> <<[key |-> "chocoberry", value |-> 5, numeric |-> TRUE], [key |-> "ashwreath", value |-> 3, numeric |-> TRUE]>>],
    [id |-> "cheesebite", size |-> <<1, 1>>, effects |-> <<"improved_water_retain">>,
     conditions |-> <<[key |-> "creambloom", value |-> 4, numeric |-> TRUE], [key |-> "fermento", value |-> 4, numeric |-> TRUE]>>],
    [id |-> "chloronite", size |-> <<1, 1>>, effects |-> <<"immunity">>,
     conditions |-> <<[key |-> "coalroot", value |-> 6, numeric |-> TRUE], [key |-> "thornshade", value |-> 2, numeric |-> TRUE]>>],
    [id |-> "do_not_eat_shroom", size |-> <<1, 1>>, effects |-> <<"improved_harvest_boost", "water_drain">>,
     conditions |-> <<[key |-> "veilshroom", value |-> 4, numeric |-> TRUE], [key |-> "scourroot", value |-> 4, numeric |-> TRUE]>>],
    [id |-> "fleshtrap", size |-> <<1, 1>>, effects |-> <<"bonus_drops">>,
     conditions |-> <<[key |-> "cindershade", value |-> 4, numeric |-> TRUE], [key |-> "lonelily", value |-> 4, numeric |-> TRUE]>>],
    [id |-> "magic_jellybean", size |-> <<1, 1>>, effects |-> <<"improved_xp_boost", "harvest_loss">>,
     conditions |-> <<[key |-> "sugar_cane", value |-> 5, numeric |-> TRUE], [key |-> "duskbloom", value |-> 3, numeric |-> TRUE]>>],
    [id |-> "noctilume", size |-> <<2, 2>>, effects |-> <<"effect_spread", "improved_water_retain", "harvest_loss">>,
     conditions |-> <<[key |-> "duskbloom", value |-> 6, numeric |-> TRUE], [key |-> "lonelily", value |-> 2, numeric |-> TRUE]>>],
    [id |-> "snoozling", size |-> <<3, 3>>, effects |-> <<"bonus_drops">>,
     conditions |-> <<[key |-> "creambloom", value |-> 4, numeric |-> TRUE], [key |-> "dustgrain", value |-> 3, numeric |-> TRUE], [key |-> "witherbloom", value |-> 3, numeric |-> TRUE], [key |-> "duskbloom", value |-> 3, numeric |-> TRUE], [key |-> "thornshade", value |-> 3, numeric |-> TRUE]>>],
    [id |-> "soggybud", size |-> <<1, 1>>, effects |-> <<"water_retain">>,
     conditions |-> <<[key |-> "melon", value |-> 8, numeric |-> TRUE]>>],
    [id |-> "chorus_fruit", size |-> <<1, 1>>, effects |-> <<"improved_xp_boost", "harvest_loss">>,
     conditions |-> <<[key |-> "chloronite", value |-> 5, numeric |-> TRUE], [key |-> "magic_jellybean", value |-> 3, numeric |-> TRUE]>>],
    [id |-> "plantboy_advance", size |-> <<2, 2>>, effects |-> <<"harvest_boost">>,
     conditions |-> <<[key |-> "snoozling", value |-> 6, numeric |-> TRUE], [key |-> "thunderling", value |-> 6, numeric |-> TRUE]>>],
    [id |-> "puffercloud", size |-> <<1, 1>>, effects |-> <<"improved_harvest_boost", "water_drain">>,
     conditions |-> <<[key |-> "snoozling", value |-> 2, numeric |-> TRUE], [key |-> "do_not_eat_shroom", value |-> 6, numeric |-> TRUE]>>],
    [id |-> "shellfruit", size |-> <<1, 1>>, effects |-> <<"water_retain", "immunity">>,
     conditions |-> <<[key |-> "special", value |-> 0, numeric |-> FALSE]>>],
    [id |-> "startlevine", size |-> <<1, 1>>, effects |-> <<"improved_water_retain", "improved_xp_boost", "harvest_loss">>,
     conditions |-> <<[key |-> "blastberry", value |-> 4, numeric |-> TRUE], [key |-> "cheesebite", value |-> 4, numeric |-> TRUE]>>],
    [id |-> "stoplight_petal", size |-> <<1, 1>>, effects |-> <<"effect_spread", "improved_water_retain", "harvest_loss">>,
     conditions |-> <<[key |-> "snoozling", value |-> 4, numeric |-> TRUE], [key |-> "noctilume", value |-> 4, numeric |-> TRUE]>>],
    [id |-> "thunderling", size |-> <<1, 1>>, effects |-> <<"effect_spread">>,
     conditions |-> <<[key |-> "soggybud", value |-> 5, numeric |-> TRUE], [key |-> "noctilume", value |-> 3, numeric |-> TRUE]>>],
    [id |-> "turtlellini", size |-> <<1, 1>>, effects |-> <<"water_retain", "immunity">>,
     conditions |-> <<[key |-> "soggybud", value |-> 4, numeric |-> TRUE], [key |-> "choconut", value |-> 4, numeric |-> TRUE]>>],
    [id |-> "zombud", size |-> <<1, 1>>, effects |-> <<"effect_spread", "bonus_drops">>,
     conditions |-> <<[key |-> "dead_plant", value |-> 4, numeric |-> TRUE], [key |-> "cindershade", value |-> 2, numeric |-> TRUE], [key |-> "fleshtrap", value |-> 2, numeric |-> TRUE]>>],
    [id |-> "all_in_aloe", size |-> <<1, 1>>, effects |-> <<"harvest_boost">>,
     conditions |-> <<[key |-> "magic_jellybean", value |-> 6, numeric |-> TRUE], [key |-> "plantboy_advance", value |-> 2, numeric |-> TRUE]>>],
    [id |-> "devourer", size |-> <<1, 1>>, effects |-> <<"bonus_drops", "improved_harvest_boost", "water_drain">>,
     conditions |-> <<[key |-> "puffercloud", value |-> 4, numeric |-> TRUE], [key |-> "zombud", value |-> 4, numeric |-> TRUE]>>],
    [id |-> "glasscorn", size |-> <<2, 2>>, effects |-> <<"immunity", "improved_water_retain", "harvest_loss">>,
     conditions |-> <<[key |-> "startlevine", value |-> 6, numeric |-> TRUE], [key |-> "chloronite", value |-> 6, numeric |-> TRUE]>>],
    [id |-> "jerryflower", size |-> <<1, 1>>, effects |-> <<>>,
     conditions |-> <<[key |-> "special", value |-> 0, numeric |-> FALSE]>>],
    [id |-> "godseed", size |-> <<3, 3>>, effects |-> <<"improved_harvest_boost", "improved_water_retain", "improved_xp_boost", "immunity", "bonus_drops", "improved_effect_spread">>,
     conditions |-> <<[key |-> "special", value |-> 0, numeric |-> FALSE]>>],
    [id |-> "phantomleaf", size |-> <<1, 1>>, effects |-> <<"xp_boost", "immunity">>,
     conditions |-> <<[key |-> "chorus_fruit", value |-> 4, numeric |-> TRUE], [key |-> "shellfruit", value |-> 4, numeric |-> TRUE]>>],
    [id |-> "timestalk", size |-> <<1, 1>>, effects |-> <<"improved_water_retain", "improved_xp_boost", "harvest_loss">>,
     conditions |-> <<[key |-> "stoplight_petal", value |-> 4, numeric |-> TRUE], [key |-> "chorus_fruit", value |-> 2, numeric |-> TRUE], [key |-> "shellfruit", value |-> 2, numeric |-> TRUE]>>]
>>


IdsOf(data) == {data[i].id : i \in DOMAIN data}

MutationIds == IdsOf(MUTATIONS_DATA)

Lookup(data, id) == data[CHOOSE i \in DOMAIN data : data[i].id = id]

RawOf(id) == Lookup(MUTATIONS_DATA, id)

GodseedEffects ==
    <<"improved_harvest_boost", "improved_water_retain", "improved_xp_boost",
      "immunity", "bonus_drops", "improved_effect_spread">>

\* getMutationData: the godseed record is replaced by a fixed one.
getMutationData(id) ==
    IF id = "godseed"
    THEN [id |-> "godseed", size |-> <<3, 3>>, effects |-> GodseedEffects,
          conditions |-> <<[key |-> "special", value |-> 0, numeric |-> FALSE]>>]
    ELSE RawOf(id)

HasKey(conditions, k) == \E i \in DOMAIN conditions : conditions[i].key = k

\* ------------------------------------------------------------------------
\* tierUtils.ts
\* ------------------------------------------------------------------------
IsCatalogId(k) == k \in MutationIds

MaxOf(S) == CHOOSE t \in S : \A u \in S : u <= t

\* calculateTiers/getTier: special -> 5, otherwise maxDepTier + 1 where
\* maxDepTier starts at -1 and ranges over the condition keys that are
\* mutation ids.
RECURSIVE getTier(_)
TierOfConditions(conds) ==
    IF HasKey(conds, "special") THEN 5
    ELSE 1 + MaxOf({-1} \cup {getTier(conds[i].key) :
                                 i \in {j \in DOMAIN conds : IsCatalogId(conds[j].key)}})

getTier(id) == TierOfConditions(getMutationData(id).conditions)

MUTATION_TIERS == [id \in MutationIds |-> getTier(id)]

\* ------------------------------------------------------------------------
\* mutationUtils.ts: godseed helper computation
\* ------------------------------------------------------------------------
GODSEED_REQUIRED_EFFECT_TYPES ==
    <<"harvest_boost", "water_retain", "xp_boost", "immunity", "bonus_drops", "effect_spread">>

NEGATIVE_EFFECTS == {"xp_loss", "harvest_loss", "water_drain"}

\* `improved_${requiredType}`
ImprovedName(t) ==
    CASE t = "harvest_boost" -> "improved_harvest_boost"
      [] t = "water_retain"  -> "improved_water_retain"
      [] t = "xp_boost"      -> "improved_xp_boost"
      [] t = "effect_spread" -> "improved_effect_spread"
      [] t = "immunity"      -> "improved_immunity"
      [] t = "bonus_drops"   -> "improved_bonus_drops"
      [] OTHER               -> "improved_?"

effectSatisfiesType(effect, requiredType) ==
    effect = requiredType \/ effect = ImprovedName(requiredType)

CoversType(effects, t) == \E i \in DOMAIN effects : effectSatisfiesType(effects[i], t)

\* the filter of getPositiveEffectMutations
IsHelperCandidate(m) ==
    /\ ~HasKey(m.conditions, "special")
    /\ ~(\E i \in DOMAIN m.conditions :
            m.conditions[i].key = "adjacent_crops" /\ m.conditions[i].value = 0)
    /\ ~(\E i \in DOMAIN m.effects : m.effects[i] \in NEGATIVE_EFFECTS)
    /\ Len(m.effects) > 0

\* sort key: area ascending, then number of effects descending
HelperKeys(kept) ==
    [i \in DOMAIN kept |->
        [id |-> kept[i].id, effects |-> kept[i].effects,
         score |-> Len(kept[i].effects) - 1000 * (kept[i].size[1] * kept[i].size[2])]]

getPositiveEffectMutations == StableSortDesc(HelperKeys(SelectSeq(MUTATIONS_DATA, IsHelperCandidate)))

getCoveredEffectTypes(mutationIds) ==
    {t \in Range(GODSEED_REQUIRED_EFFECT_TYPES) :
        \E id \in mutationIds : CoversType(getMutationData(id).effects, t)}

\* number of still-missing types a candidate covers
HelperCoverage(cand, stillMissing) ==
    Cardinality({t \in stillMissing : CoversType(cand.effects, t)})

\* first candidate of the highest coverage (strict > keeps the earliest)
BestHelper(cands, idxs, stillMissing) ==
    CHOOSE i \in idxs :
        \A j \in idxs :
            \/ HelperCoverage(cands[j], stillMissing) < HelperCoverage(cands[i], stillMissing)
            \/ /\ HelperCoverage(cands[j], stillMissing) = HelperCoverage(cands[i], stillMissing)
               /\ j >= i

\* the while loop of calculateGodseedHelpers; result is the list of chosen ids
RECURSIVE GodseedGreedy(_, _, _, _)
GodseedPick(stillMissing, relevant, result, cands, best) ==
    GodseedGreedy({t \in stillMissing : ~CoversType(cands[best].effects, t)},
                  relevant, Append(result, cands[best].id), cands)

GodseedStep(stillMissing, relevant, result, cands, idxs) ==
    IF stillMissing = {} \/ idxs = {} THEN result
    ELSE GodseedPick(stillMissing, relevant, result, cands, BestHelper(cands, idxs, stillMissing))

GodseedGreedy(stillMissing, relevant, result, cands) ==
    GodseedStep(stillMissing, relevant, result, cands,
                {i \in DOMAIN cands :
                    /\ cands[i].id \notin Range(result)
                    /\ cands[i].id \notin relevant
                    /\ HelperCoverage(cands[i], stillMissing) > 0})

HelperConditions(chosen) ==
    [i \in DOMAIN chosen |-> [key |-> chosen[i], value |-> 1, numeric |-> TRUE]]

calculateGodseedHelpers(selectedMutations) ==
    HelperConditions(
        GodseedGreedy(Range(GODSEED_REQUIRED_EFFECT_TYPES)
                         \ getCoveredEffectTypes(selectedMutations \ {"godseed"}),
                      selectedMutations \ {"godseed"}, <<>>, getPositiveEffectMutations))

\* ------------------------------------------------------------------------
\* MutationParser
\* ------------------------------------------------------------------------
getRawMutation(id, unlockedIds) ==
    IF id = "godseed"
    THEN [id |-> "godseed", size |-> <<3, 3>>, effects |-> GodseedEffects,
          conditions |-> calculateGodseedHelpers(unlockedIds)]
    ELSE getMutationData(id)

isCropOrCondition(key) == key \in BASE_CROPS \/ key \in EXTRA_CONDITIONS

IsCounted(e) == e.key # "adjacent_crops" /\ e.key # "special" /\ e.numeric

IsCropCondition(e) == IsCounted(e) /\ isCropOrCondition(e.key)

IsMutationCondition(e) == IsCounted(e) /\ ~isCropOrCondition(e.key)

IsIsolationCondition(e) == e.key = "adjacent_crops" /\ e.numeric /\ e.value = 0

\* crops and mutations keep the order of the raw conditions (Map insertion order)
ParseRaw(id, raw) ==
    [id |-> id,
     size |-> raw.size,
     crops |-> SelectSeq(raw.conditions, IsCropCondition),
     mutations |-> SelectSeq(raw.conditions, IsMutationCondition),
     requiresIsolation |-> \E i \in DOMAIN raw.conditions : IsIsolationCondition(raw.conditions[i]),
     effects |-> Range(raw.effects)]

parse(id, unlockedIds) == ParseRaw(id, getRawMutation(id, unlockedIds))

hasSpreadEffect(mutation) ==
    \E e \in mutation.effects : e = "effect_spread" \/ e = "improved_effect_spread"

POSITIVE_EFFECTS ==
    {"harvest_boost", "improved_harvest_boost", "water_retain", "improved_water_retain",
     "xp_boost", "improved_xp_boost", "immunity", "bonus_drops", "effect_spread",
     "improved_effect_spread"}

hasPositiveEffect(mutation) ==
    \E e \in mutation.effects : e \in POSITIVE_EFFECTS /\ e \notin NEGATIVE_EFFECTS

\* count required of a kind by a list of [key, value] entries (Map.get || 0)
Required(entries, k) == SumSeq([i \in DOMAIN entries |-> IF entries[i].key = k THEN entries[i].value ELSE 0])

\* ------------------------------------------------------------------------
\* Geometry
\* ------------------------------------------------------------------------
InBounds(x, y) == x >= 0 /\ x < GRID_SIZE /\ y >= 0 /\ y < GRID_SIZE

\* cells of the rectangle anchored at (x, y)
Rect(x, y, w, h) == {<<x + dx, y + dy>> : dx \in 0..(w - 1), dy \in 0..(h - 1)}

FootprintOf(p) == Rect(p.position[1], p.position[2], p.size[1], p.size[2])

IsOutside(o, w, h) == ~(o[2] >= 0 /\ o[2] < h /\ o[1] >= 0 /\ o[1] < w)

\* a ring walked column by column: for dx = -1..w, for dy = -1..h
RingOffsetsByColumn(w, h) ==
    SelectSeq([i \in 1..((w + 2) * (h + 2)) |->
                  <<((i - 1) \div (h + 2)) - 1, ((i - 1) % (h + 2)) - 1>>],
              LAMBDA o : IsOutside(o, w, h))

\* the offsets of "for dy = -1..h, for dx = -1..w, skip the footprint", in loop order
RingOffsets(w, h) ==
    SelectSeq([i \in 1..((w + 2) * (h + 2)) |->
                  <<((i - 1) % (w + 2)) - 1, ((i - 1) \div (w + 2)) - 1>>],
              LAMBDA o : IsOutside(o, w, h))

ShiftAll(offs, x, y) == [i \in DOMAIN offs |-> <<x + offs[i][1], y + offs[i][2]>>]

\* ring cells of the footprint, bounds not checked (Placer's isolation loop)
RingRaw(x, y, w, h) == ShiftAll(RingOffsets(w, h), x, y)

\* in-bounds ring cells in traversal order (FeasibilityChecker's loops)
Ring(x, y, w, h) == SelectSeq(RingRaw(x, y, w, h), LAMBDA c : InBounds(c[1], c[2]))

\* ------------------------------------------------------------------------
\* Instance ids.  `${mutationId}_${n}` is [mid, tag = "", n];
\* `${mutationId}_extra_${n}` has tag "extra"; '__pre__' has tag "pre".
\* ------------------------------------------------------------------------
InstanceId(mid, n) == [mid |-> mid, tag |-> "", n |-> n]

ExtraInstanceId(mid, n) == [mid |-> mid, tag |-> "extra", n |-> n]

PRE == [mid |-> "", tag |-> "pre", n |-> 0]

\* s.split('_')[0] for a mutation id s
UnderscoreHead(mid) ==
    CASE mid = "do_not_eat_shroom" -> "do"
      [] mid = "magic_jellybean"   -> "magic"
      [] mid = "chorus_fruit"      -> "chorus"
      [] mid = "plantboy_advance"  -> "plantboy"
      [] mid = "stoplight_petal"   -> "stoplight"
      [] mid = "all_in_aloe"       -> "all"
      [] OTHER                     -> mid

\* instanceId.split('_')[0]
IdHead(instanceId) == IF instanceId.tag = "pre" THEN "" ELSE UnderscoreHead(instanceId.mid)

\* ------------------------------------------------------------------------
\* Grid
\* ------------------------------------------------------------------------
isUnlocked(ctx, x, y) == <<x, y>> \in ctx.unlockedSlots

\* isFree without the bounds test
isFreeAnywhere(ctx, x, y) ==
    /\ <<x, y>> \in ctx.unlockedSlots
    /\ <<x, y>> \notin ctx.occupied

isFree(ctx, x, y) ==
    /\ InBounds(x, y)
    /\ <<x, y>> \in ctx.unlockedSlots
    /\ <<x, y>> \notin ctx.occupied

canFitRect(ctx, x, y, w, h) == \A c \in Rect(x, y, w, h) : isFree(ctx, c[1], c[2])

\* ------------------------------------------------------------------------
\* CropRegistry: crops is a function cell -> [type, mutations]
\* ------------------------------------------------------------------------
hasCrop(ctx, x, y) == <<x, y>> \in DOMAIN ctx.crops

placeCrop(crops, cell, type, forMutation) ==
    IF cell \in DOMAIN crops
    THEN [crops EXCEPT ![cell].mutations = @ \cup {forMutation}]
    ELSE [c \in DOMAIN crops \cup {cell} |->
            IF c = cell THEN [type |-> type, mutations |-> {forMutation}] ELSE crops[c]]

\* a registry that drops the instance but keeps the crops it emptied
removeMutationKeepingCrops(crops, mutationId) ==
    [c \in DOMAIN crops |-> [crops[c] EXCEPT !.mutations = @ \ {mutationId}]]

\* returns the remaining crops; the released cells are the crops that disappear
removeMutationFromCrops(crops, mutationId) ==
    [c \in {d \in DOMAIN crops : crops[d].mutations \ {mutationId} # {}} |->
        [crops[c] EXCEPT !.mutations = @ \ {mutationId}]]

getSharedCount(ctx) == Cardinality({c \in DOMAIN ctx.crops : Cardinality(ctx.crops[c].mutations) > 1})

getTotalCount(ctx) == Cardinality(DOMAIN ctx.crops)

\* ------------------------------------------------------------------------
\* MutationRegistry: mutations is the list of placements in Map insertion
\* order, cellToMutation a function cell -> instanceId
\* ------------------------------------------------------------------------
HasInstance(ctx, instanceId) == \E i \in DOMAIN ctx.mutations : ctx.mutations[i].instanceId = instanceId

getPlacement(ctx, instanceId) ==
    ctx.mutations[CHOOSE i \in DOMAIN ctx.mutations : ctx.mutations[i].instanceId = instanceId]

\* "" stands for undefined
getMutationIdAt(ctx, x, y) ==
    IF <<x, y>> \in DOMAIN ctx.cellToMutation THEN IdHead(ctx.cellToMutation[<<x, y>>]) ELSE ""

\* Map.set keeps the position of an existing key
RegistryPlace(ctx, placement) ==
    [ctx EXCEPT
        !.mutations =
            IF HasInstance(ctx, placement.instanceId)
            THEN [i \in DOMAIN @ |->
                    IF @[i].instanceId = placement.instanceId THEN placement ELSE @[i]]
            ELSE Append(@, placement),
        !.cellToMutation =
            [c \in DOMAIN @ \cup FootprintOf(placement) |->
                IF c \in FootprintOf(placement) THEN placement.instanceId ELSE @[c]]]

\* remove(instanceId) for the placement p found under that id
RegistryRemove(ctx, p) ==
    [ctx EXCEPT
        !.mutations = SelectSeq(@, LAMBDA q : q.instanceId # p.instanceId),
        !.cellToMutation = [c \in DOMAIN @ \ FootprintOf(p) |-> @[c]]]

\* ------------------------------------------------------------------------
\* PlacementContext
\* ------------------------------------------------------------------------
EmptyMap == [c \in {} |-> c]

NewContext(unlockedSlots) ==
    [unlockedSlots  |-> unlockedSlots,
     occupied       |-> {},
     crops          |-> EmptyMap,
     mutations      |-> <<>>,
     cellToMutation |-> EmptyMap,
     emptyZones     |-> {}]

\* a crop test that consults only the occupancy, not the unlocked set
isCellFreeForCropIgnoringLocks(ctx, x, y) ==
    /\ InBounds(x, y)
    /\ <<x, y>> \notin ctx.occupied
    /\ <<x, y>> \notin ctx.emptyZones
    /\ ~hasCrop(ctx, x, y)

isCellFreeForCrop(ctx, x, y) ==
    /\ InBounds(x, y)
    /\ isFree(ctx, x, y)
    /\ <<x, y>> \notin ctx.emptyZones
    /\ ~hasCrop(ctx, x, y)

\* ------------------------------------------------------------------------
\* FeasibilityChecker.  A FeasiblePlacement is a record; its Maps are lists
\* of entries in insertion order.  Infeasible stands for null.
\* ------------------------------------------------------------------------
Infeasible ==
    [ok |-> FALSE, position |-> <<0, 0>>, freeCells |-> <<>>, satisfiedCrops |-> <<>>,
     satisfiedMutations |-> <<>>, cropsNeeded |-> <<>>]

Feasible(position, freeCells, satisfiedCrops, satisfiedMutations, cropsNeeded) ==
    [ok |-> TRUE, position |-> position, freeCells |-> freeCells,
     satisfiedCrops |-> satisfiedCrops, satisfiedMutations |-> satisfiedMutations,
     cropsNeeded |-> cropsNeeded]

\* the elements of keys, once each, in order of first occurrence
RECURSIVE FirstOccurrences(_, _)
FirstOccurrences(keys, acc) ==
    IF keys = <<>> THEN acc
    ELSE FirstOccurrences(Tail(keys),
                          IF Head(keys) \in Range(acc) THEN acc ELSE Append(acc, Head(keys)))

KeysOf(entries) == {entries[i].key : i \in DOMAIN entries}

\* what the ring loop finds at cell c before checkedMutations is consulted
CellView(ctx, mutation, c) ==
    IF c \in DOMAIN ctx.crops /\ ctx.crops[c].type \in KeysOf(mutation.crops)
    THEN [cell |-> c, kind |-> "crop", key |-> ctx.crops[c].type, free |-> FALSE]
    ELSE [cell |-> c,
          kind |-> IF getMutationIdAt(ctx, c[1], c[2]) \in KeysOf(mutation.mutations) \ {""}
                   THEN "mutation" ELSE "other",
          key  |-> getMutationIdAt(ctx, c[1], c[2]),
          free |-> isCellFreeForCrop(ctx, c[1], c[2])]

\* checkedMutations: only the first cell of a mutation id counts
Checked(views) ==
    [i \in DOMAIN views |->
        IF /\ views[i].kind = "mutation"
           /\ \E j \in 1..(i - 1) : views[j].kind = "mutation" /\ views[j].key = views[i].key
        THEN [views[i] EXCEPT !.kind = "other"]
        ELSE views[i]]

CellsOf(views) == [i \in DOMAIN views |-> views[i].cell]

OfKind(views, kind) == SelectSeq(views, LAMBDA v : v.kind = kind)

\* satisfiedCrops: per crop type in order of first occurrence, its cells in ring order
GroupCrops(cropViews, types) ==
    [k \in DOMAIN types |->
        [type |-> types[k],
         positions |-> CellsOf(SelectSeq(cropViews, LAMBDA v : v.key = types[k]))]]

SatisfiedCropsOf(cropViews) ==
    GroupCrops(cropViews, FirstOccurrences([i \in DOMAIN cropViews |-> cropViews[i].key], <<>>))

SatisfiedMutationsOf(mutViews) ==
    [k \in DOMAIN mutViews |-> [mutId |-> mutViews[k].key, positions |-> <<mutViews[k].cell>>]]

\* satisfiedCrops.get(type)?.length || 0
CropCountOf(satisfiedCrops, type) ==
    SumSeq([i \in DOMAIN satisfiedCrops |->
               IF satisfiedCrops[i].type = type THEN Len(satisfiedCrops[i].positions) ELSE 0])

MutationCountOf(satisfiedMutations, mutId) ==
    SumSeq([i \in DOMAIN satisfiedMutations |->
               IF satisfiedMutations[i].mutId = mutId
               THEN Len(satisfiedMutations[i].positions) ELSE 0])

\* cropsNeeded: for each required crop in Map order, what is still missing
CropsNeededOf(crops, satisfiedCrops) ==
    SelectSeq([i \in DOMAIN crops |->
                  [type |-> crops[i].key,
                   count |-> Max2(0, crops[i].value - CropCountOf(satisfiedCrops, crops[i].key))]],
              LAMBDA e : e.count > 0)

TotalNeeded(cropsNeeded) == SumSeq([k \in DOMAIN cropsNeeded |-> cropsNeeded[k].count])

\* the two final tests of checkFeasibility
Decide(mutation, f) ==
    IF \E i \in DOMAIN mutation.mutations :
          MutationCountOf(f.satisfiedMutations, mutation.mutations[i].key)
              < mutation.mutations[i].value
    THEN Infeasible
    ELSE IF Len(f.freeCells) < TotalNeeded(f.cropsNeeded) THEN Infeasible
    ELSE f

Assemble(mutation, position, freeCells, satisfiedCrops, satisfiedMutations) ==
    Decide(mutation, Feasible(position, freeCells, satisfiedCrops, satisfiedMutations,
                              CropsNeededOf(mutation.crops, satisfiedCrops)))

Classify(mutation, position, views) ==
    Assemble(mutation, position,
             CellsOf(SelectSeq(views, LAMBDA v : v.kind = "other" /\ v.free)),
             SatisfiedCropsOf(OfKind(views, "crop")),
             SatisfiedMutationsOf(OfKind(views, "mutation")))

CheckRing(ctx, mutation, x, y, ring) ==
    IF mutation.requiresIsolation
    THEN IF \E i \in DOMAIN ring : hasCrop(ctx, ring[i][1], ring[i][2])
         THEN Infeasible
         ELSE Feasible(<<x, y>>, <<>>, <<>>, <<>>, <<>>)
    ELSE Classify(mutation, <<x, y>>,
                  Checked([i \in DOMAIN ring |-> CellView(ctx, mutation, ring[i])]))

checkFeasibility(ctx, mutation, x, y) ==
    IF ~canFitRect(ctx, x, y, mutation.size[1], mutation.size[2]) THEN Infeasible
    ELSE IF Rect(x, y, mutation.size[1], mutation.size[2]) \cap ctx.emptyZones # {} THEN Infeasible
    ELSE CheckRing(ctx, mutation, x, y, Ring(x, y, mutation.size[1], mutation.size[2]))

\* ------------------------------------------------------------------------
\* Placer
\* ------------------------------------------------------------------------
\* crop types of cropsNeeded, each repeated count times
RECURSIVE FlattenNeeded(_)
FlattenNeeded(cropsNeeded) ==
    IF cropsNeeded = <<>> THEN <<>>
    ELSE [i \in 1..Head(cropsNeeded).count |-> Head(cropsNeeded).type]
            \o FlattenNeeded(Tail(cropsNeeded))

CropEntries(positions, cropType) ==
    [i \in DOMAIN positions |-> [position |-> positions[i], cropType |-> cropType]]

\* the positions.slice(0, required) of every satisfied crop kind, in Map order
RECURSIVE ReusedCrops(_, _)
ReusedCrops(satisfiedCrops, crops) ==
    IF satisfiedCrops = <<>> THEN <<>>
    ELSE CropEntries(SubSeq(Head(satisfiedCrops).positions, 1,
                            Min2(Required(crops, Head(satisfiedCrops).type),
                                 Len(Head(satisfiedCrops).positions))),
                     Head(satisfiedCrops).type)
            \o ReusedCrops(Tail(satisfiedCrops), crops)

\* new crops: free cells consumed in order, one per needed crop
NewCrops(freeCells, flat) ==
    [i \in 1..Min2(Len(flat), Len(freeCells)) |-> [position |-> freeCells[i], cropType |-> flat[i]]]

RECURSIVE PlaceCrops(_, _, _)
PlaceCrops(crops, list, instanceId) ==
    IF list = <<>> THEN crops
    ELSE PlaceCrops(placeCrop(crops, Head(list).position, Head(list).cropType, instanceId),
                    Tail(list), instanceId)

NewPlacement(mutation, position, instanceId, placedCrops) ==
    [mutationId |-> mutation.id,
     instanceId |-> instanceId,
     position |-> position,
     size |-> mutation.size,
     crops |-> placedCrops,
     needsIsolation |-> mutation.requiresIsolation]

\* a Placer that reserves nothing around an isolated placement
NoIsolationZones(ctx, ringRaw) == {}

\* markEmptyZone over the ring: only unlocked cells are recorded
IsolationZones(ctx, ringRaw) ==
    {ringRaw[i] : i \in {j \in DOMAIN ringRaw : isUnlocked(ctx, ringRaw[j][1], ringRaw[j][2])}}

\* the non-isolation branch: reused are the satisfied crops that still exist
\* (the instance is added to them), placedNew the crops laid on free cells
PlaceWithCrops(ctx, mutation, position, instanceId, reused, placedNew) ==
    RegistryPlace(
        [ctx EXCEPT
            !.occupied = (@ \cup Rect(position[1], position[2], mutation.size[1], mutation.size[2]))
                            \cup {placedNew[i].position : i \in DOMAIN placedNew},
            !.crops = PlaceCrops(@, reused \o placedNew, instanceId)],
        NewPlacement(mutation, position, instanceId, reused \o placedNew))

executePlacement(ctx, mutation, feasible, instanceId) ==
    IF mutation.requiresIsolation
    THEN RegistryPlace(
            [ctx EXCEPT
                !.occupied = @ \cup Rect(feasible.position[1], feasible.position[2],
                                         mutation.size[1], mutation.size[2]),
                !.emptyZones = @ \cup IsolationZones(ctx,
                                         RingRaw(feasible.position[1], feasible.position[2],
                                                 mutation.size[1], mutation.size[2]))],
            NewPlacement(mutation, feasible.position, instanceId, <<>>))
    ELSE PlaceWithCrops(ctx, mutation, feasible.position, instanceId,
                        SelectSeq(ReusedCrops(feasible.satisfiedCrops, mutation.crops),
                                  LAMBDA r : r.position \in DOMAIN ctx.crops),
                        NewCrops(feasible.freeCells, FlattenNeeded(feasible.cropsNeeded)))

\* a Placer that releases the footprint and forgets the cells of deleted crops
RemoveFoundFootprintOnly(ctx, p, crops1) ==
    [RegistryRemove(ctx, p) EXCEPT
        !.occupied = @ \ FootprintOf(p),
        !.crops = crops1]

RemoveFound(ctx, p, crops1) ==
    [RegistryRemove(ctx, p) EXCEPT
        !.occupied = (@ \ FootprintOf(p)) \ (DOMAIN ctx.crops \ DOMAIN crops1),
        !.crops = crops1]

removePlacement(ctx, instanceId) ==
    IF ~HasInstance(ctx, instanceId) THEN ctx
    ELSE RemoveFound(ctx, getPlacement(ctx, instanceId),
                     removeMutationFromCrops(ctx.crops, instanceId))

\* ------------------------------------------------------------------------
\* Strategy profiles (constants.ts).  Weights and randomness are in tenths.
\* ------------------------------------------------------------------------
STRATEGIES == <<
    [name |-> "compact-balanced", sharingWeight |-> 10, compactnessWeight |-> 20,
     synergyWeight |-> 5, cornerWeight |-> 10, randomness |-> 0],
    [name |-> "ultra-compact", sharingWeight |-> 5, compactnessWeight |-> 30,
     synergyWeight |-> 3, cornerWeight |-> 5, randomness |-> 0],
    [name |-> "compact-sharing", sharingWeight |-> 15, compactnessWeight |-> 20,
     synergyWeight |-> 5, cornerWeight |-> 5, randomness |-> 0],
    [name |-> "tight-cluster", sharingWeight |-> 8, compactnessWeight |-> 25,
     synergyWeight |-> 5, cornerWeight |-> 10, randomness |-> 0],
    [name |-> "exploration", sharingWeight |-> 10, compactnessWeight |-> 15,
     synergyWeight |-> 5, cornerWeight |-> 10, randomness |-> 2] >>

\* ------------------------------------------------------------------------
\* State of one call of the engine
\* ------------------------------------------------------------------------
VARIABLES
    entry,              \* the operation called: "optimize", "optimizeAll" or "ops"
    unlockedMutations,  \* keys of the parser's unlockedMutations
    targets,            \* the workload: sequence of [mutationId, quantity]
    slots,              \* the unlocked set
    cache,              \* MutationParser.cache: id -> ParsedMutation
    pc,                 \* position of the call
    strategy,           \* 0 bulk, 1..5 greedy profiles, 6 genetic
    profile,            \* the StrategyProfile in use
    ctx,                \* the context being built / SA's current
    queue,              \* instances GreedySolver still has to place
    saBest,             \* SA's best
    tabuList,           \* SA's tabu list
    totalIterations,    \* SA's iteration counter
    population,         \* GA's population: sequence of [ctx, fitness]
    nextGen,            \* GA's next generation under construction
    gen,                \* GA's generation counter
    best,               \* optimize's best, Null until set
    results,            \* optimizeAll's result list
    availableMutations, \* objective mode: the allowed pool
    maxIterations,      \* objective mode: config.maxIterations
    curState,           \* objective mode: optimizeLayout's state, the current OptimizerState
    bestState,          \* objective mode: the tracked best OptimizerState
    bestScore,          \* objective mode: the tracked best score
    iteration,          \* objective mode: the loop counter
    history,            \* objective mode: the recorded [iteration, score]
    abortRef,           \* the designer's abortRef.current
    uiResult,           \* the designer's result, NoResult until set
    progress,           \* what onProgress was last called with, NoProgress until then
    heap,               \* clone check: the objects of the contexts, by address
    cloned,             \* clone check: the context clone() returned, NoRef until then
    snapshot,           \* clone check: the original as it was when it was cloned
    cloneOps,           \* clone check: operations applied to the clone
    probe,              \* clone check: the last two checkFeasibility calls, NoProbe before
    layout,             \* what the entry point returned without calling the optimizer
    unlockedGrid,       \* layout view: the unlockedSlots prop, its true cells as <<rowIndex, colIndex>>
    firstRun,           \* rerun check: what the first of two identical calls returned
    schedule            \* SA's temperature loop: temperature, counters and step outcomes

vars == <<entry, unlockedMutations, targets, slots, cache, pc, strategy, profile, ctx, queue,
          saBest, tabuList, totalIterations, population, nextGen, gen, best, results,
          availableMutations, maxIterations, curState, bestState, bestScore, iteration,
          history, abortRef, uiResult, progress, heap, cloned, snapshot, cloneOps, probe, layout, unlockedGrid,
          firstRun, schedule>>

inputVars == <<entry, unlockedMutations, targets, slots, cache>>

saVars == <<saBest, tabuList, totalIterations>>

gaVars == <<population, nextGen, gen>>

objectiveVars == <<availableMutations, maxIterations, curState, bestState, bestScore,
                   iteration, history, abortRef, uiResult, progress>>

cloneVars == <<heap, cloned, snapshot, cloneOps, probe>>

\* what the checks of single functions keep beside the pipeline
auxVars == <<layout, unlockedGrid, firstRun, schedule>>

NoRef == [occupied |-> 0]

NoProbe == [called |-> FALSE]

\* no context has been cloned
CloneIdle ==
    /\ heap = <<>>
    /\ cloned = NoRef
    /\ snapshot = NewContext({})
    /\ cloneOps = 0
    /\ probe = NoProbe

\* createEmptyState(): a GRID_SIZE x GRID_SIZE grid of null, no placements
NullId == <<"null", 0, 0>>

createEmptyState ==
    [grid |-> [c \in (0..(GRID_SIZE - 1)) \X (0..(GRID_SIZE - 1)) |-> NullId],
     placedMutations |-> EmptyMap,
     placedCrops |-> EmptyMap,
     score |-> 0]

NoResult == [state |-> "null"]

NoProgress == [iteration |-> 0]

\* the objective-mode optimizer has not been called
ObjectiveIdle ==
    /\ availableMutations = <<>>
    /\ maxIterations = 0
    /\ curState = createEmptyState
    /\ bestState = createEmptyState
    /\ bestScore = 0
    /\ iteration = 0
    /\ history = <<>>
    /\ abortRef = FALSE
    /\ uiResult = NoResult
    /\ progress = NoProgress

Null == [strategy |-> "null"]

\* the entry point has not returned a layout of its own
NoLayout == [grid |-> "none"]

\* no layout view is mounted
NoGrid == {}

\* no call has returned yet
NoRun == [returned |-> FALSE]

\* no temperature loop is running
NoSchedule == [temperature |-> 0]

\* parser.parse(id) of the call's parser
parsed(id) == cache[id]

\* ------------------------------------------------------------------------
\* PlacementScorer.  ScaledScore is score() multiplied by 20 * n, n the number
\* of placements in ctx (20 when there is none): every term is then an
\* integer, and candidates of one list (same ctx) compare as in the code.
\* ------------------------------------------------------------------------
adjacencyDistance(pos1, w1, h1, pos2, w2, h2) ==
    Max2(0, Max2(pos1[1] - (pos2[1] + w2), pos2[1] - (pos1[1] + w1)))
        + Max2(0, Max2(pos1[2] - (pos2[2] + h2), pos2[2] - (pos1[2] + h1)))

Manhattan(p, q) == Abs(p[1] - q[1]) + Abs(p[2] - q[2])

tierOf(id) == IF id \in DOMAIN MUTATION_TIERS THEN MUTATION_TIERS[id] ELSE 0

\* twice the sum of the centres of the placements along axis k
CentreSum(all, k) == SumSeq([i \in DOMAIN all |-> 2 * all[i].position[k] + all[i].size[k]])

Touching(pos, w, h, all) ==
    Cardinality({i \in DOMAIN all :
        adjacencyDistance(pos, w, h, all[i].position, all[i].size[1], all[i].size[2]) <= 1})

CompactnessTerm(pos, w, h, all, n, weight) ==
    IF n > 0
    THEN Max2(0, 200 * n - 8 * (Abs(n * (2 * pos[1] + w) - CentreSum(all, 1))
                                  + Abs(n * (2 * pos[2] + h) - CentreSum(all, 2)))) * weight
            + Touching(pos, w, h, all) * 60 * n * weight
    ELSE Max2(0, 100 - 5 * (Abs(2 * pos[1] + w - GRID_SIZE) + Abs(2 * pos[2] + h - GRID_SIZE)))
            * weight

SharingTerm(satisfiedCrops, weight, N) ==
    SumSeq([i \in DOMAIN satisfiedCrops |-> Len(satisfiedCrops[i].positions)]) * weight * 60 * N

SynergyOf(dist, weight, N) == IF dist <= 3 THEN (4 - dist) * weight * 10 * N ELSE 0

SynergyTerm(pos, mutation, all, weight, N) ==
    IF hasSpreadEffect(mutation)
    THEN SumSeq([i \in DOMAIN all |->
                    IF hasPositiveEffect(parsed(all[i].mutationId))
                    THEN SynergyOf(Manhattan(pos, all[i].position), weight, N)
                    ELSE 0])
    ELSE 0

CornerTerm(pos, w, h, isolated, weight, N) ==
    IF isolated
    THEN ((IF pos[1] = 0 \/ pos[1] >= GRID_SIZE - w THEN 1 ELSE 0)
            + (IF pos[2] = 0 \/ pos[2] >= GRID_SIZE - h THEN 1 ELSE 0)) * weight * 40 * N
    ELSE 0

ScoreTerms(feasible, mutation, all, N, prof) ==
    CompactnessTerm(feasible.position, mutation.size[1], mutation.size[2], all, Len(all),
                    prof.compactnessWeight)
      + SharingTerm(feasible.satisfiedCrops, prof.sharingWeight, N)
      + SynergyTerm(feasible.position, mutation, all, prof.synergyWeight, N)
      + CornerTerm(feasible.position, mutation.size[1], mutation.size[2],
                   mutation.requiresIsolation, prof.cornerWeight, N)
      + tierOf(mutation.id) * 60 * N

ScaledScore(feasible, mutation, c, prof) ==
    ScoreTerms(feasible, mutation, c.mutations, Max2(Len(c.mutations), 1), prof)

\* anchors in the order of "for y = 0..GRID_SIZE-h, for x = 0..GRID_SIZE-w"
Anchors(w, h) ==
    [i \in 1..((GRID_SIZE - w + 1) * (GRID_SIZE - h + 1)) |->
        <<(i - 1) % (GRID_SIZE - w + 1), (i - 1) \div (GRID_SIZE - w + 1)>>]

\* ------------------------------------------------------------------------
\* FitnessCalculator.  A fitness is kept as the exact fraction num / den
\* (den > 0) of toScore(recalculate(ctx, targetCount)).
\* ------------------------------------------------------------------------
calculateDistanceMetrics(placements) ==
    [totalDistance |->
        SumSeq([i \in DOMAIN placements |->
                   SumSeq([j \in DOMAIN placements |->
                              IF i < j
                              THEN Manhattan(placements[i].position, placements[j].position)
                              ELSE 0])]),
     pairs |-> (Len(placements) * (Len(placements) - 1)) \div 2]

calculateSynergies(placements) ==
    Cardinality({p \in (DOMAIN placements) \X (DOMAIN placements) :
        /\ hasSpreadEffect(parsed(placements[p[1]].mutationId))
        /\ placements[p[1]].instanceId # placements[p[2]].instanceId
        /\ hasPositiveEffect(parsed(placements[p[2]].mutationId))
        /\ Manhattan(placements[p[1]].position, placements[p[2]].position) <= 3})

FitnessState(c, count, dm) ==
    [mutationCount   |-> Len(c.mutations),
     targetCount     |-> count,
     sharedCropCount |-> getSharedCount(c),
     totalCrops      |-> getTotalCount(c),
     totalDistance   |-> dm.totalDistance,
     distancePairs   |-> dm.pairs,
     synergyCount    |-> calculateSynergies(c.mutations)]

recalculate(c, count) ==
    FitnessState(c, count,
                 IF Len(c.mutations) > 1 THEN calculateDistanceMetrics(c.mutations)
                 ELSE [totalDistance |-> 0, pairs |-> 0])

\* num / den with den = T * P, T and P the target count and the pair count (each at least 1)
ScoreFraction(state, T, P) ==
    [num |-> (IF state.targetCount > 0 THEN 2000 * state.mutationCount * P ELSE 2000 * T * P)
                + Max2(0, 200 * P - 10 * state.totalDistance) * T
                + (state.sharedCropCount * 30 + state.synergyCount * 20
                     - (state.targetCount - state.mutationCount) * 3000) * T * P,
     den |-> T * P]

toScore(state) == ScoreFraction(state, Max2(state.targetCount, 1), Max2(state.distancePairs, 1))

FitnessGreater(a, b) == a.num * b.den > b.num * a.den

targetCountOf(ts) == SumSeq([i \in DOMAIN ts |-> ts[i].quantity])

targetCount == targetCountOf(targets)

Fit(c) == toScore(recalculate(c, targetCount))

\* ------------------------------------------------------------------------
\* GreedySolver
\* ------------------------------------------------------------------------
Priority(mutation, id) ==
    mutation.size[1] * mutation.size[2] * 100 + tierOf(id) * 10
        + (IF mutation.requiresIsolation THEN 0 ELSE 1)

ExpandOne(t, priority) ==
    [i \in 1..t.quantity |->
        [mutationId |-> t.mutationId, instanceId |-> InstanceId(t.mutationId, i - 1),
         score |-> priority]]

RECURSIVE Expand(_)
Expand(ts) ==
    IF ts = <<>> THEN <<>>
    ELSE ExpandOne(Head(ts), Priority(parsed(Head(ts).mutationId), Head(ts).mutationId))
            \o Expand(Tail(ts))

DropScore(sorted) ==
    [i \in DOMAIN sorted |->
        [mutationId |-> sorted[i].mutationId, instanceId |-> sorted[i].instanceId]]

expandAndSort(ts) == DropScore(StableSortDesc(Expand(ts)))

Scored(ok, mutation, c, prof) ==
    [i \in DOMAIN ok |-> [feasible |-> ok[i], score |-> ScaledScore(ok[i], mutation, c, prof)]]

\* the feasible placements at `anchors`, in loop order
FeasibleAnchors(c, mutation, anchors) ==
    SelectSeq([i \in DOMAIN anchors |->
                  checkFeasibility(c, mutation, anchors[i][1], anchors[i][2])],
              LAMBDA f : f.ok)

\* the feasible anchors among `anchors`, scored and sorted as the solvers do
ScoredCandidates(c, mutation, prof, anchors) ==
    StableSortDesc(Scored(FeasibleAnchors(c, mutation, anchors), mutation, c, prof))

AllCandidates(c, mutation, prof) ==
    ScoredCandidates(c, mutation, prof, Anchors(mutation.size[1], mutation.size[2]))

\* indices GreedySolver may select: the first, or one of the top three by chance
GreedySelectable(cands, prof) ==
    IF prof.randomness > 0 /\ Len(cands) > 1 THEN 1..Min2(3, Len(cands)) ELSE {1}

\* ------------------------------------------------------------------------
\* SimulatedAnnealing.  A relocate move is [remove, newPosition, mutation], a
\* swap move [placement1, placement2, mutation1, mutation2].  The loop is
\* followed for MaxIterations iterations: the temperature is still
\* SA_INITIAL_TEMP and no tabu entry is cleaned before the first 30.
\* ------------------------------------------------------------------------
SA_TABU_SIZE == 10

isTabu(tabu, instanceId, x, y, currentIteration) ==
    \E i \in DOMAIN tabu :
        /\ tabu[i].instanceId = instanceId
        /\ tabu[i].positionKey = <<x, y>>
        /\ tabu[i].expiresAt > currentIteration

RECURSIVE ShiftTo(_, _)
ShiftTo(list, n) == IF Len(list) > n THEN ShiftTo(Tail(list), n) ELSE list

addToTabu(tabu, move, currentIteration) ==
    ShiftTo(IF "remove" \in DOMAIN move
            THEN Append(tabu, [instanceId  |-> move.remove,
                               positionKey |-> move.newPosition.position,
                               expiresAt   |-> currentIteration + SA_TABU_SIZE])
            ELSE tabu,
            SA_TABU_SIZE * 2)

\* the sorted candidate list generateMove builds for one placement
RelocateCandidates(c, toMove, prof, tabu, currentIteration) ==
    ScoredCandidates(removePlacement(c, toMove.instanceId), parsed(toMove.mutationId), prof,
                     SelectSeq(Anchors(parsed(toMove.mutationId).size[1],
                                       parsed(toMove.mutationId).size[2]),
                               LAMBDA a : /\ ~isTabu(tabu, toMove.instanceId, a[1], a[2],
                                                     currentIteration)
                                          /\ a # toMove.position))

\* generateSwapMove accepts the pair (p1, p2)
SwapAllowed(p1, p2, tabu, currentIteration) ==
    /\ parsed(p1.mutationId).size = parsed(p2.mutationId).size
    /\ ~isTabu(tabu, p1.instanceId, p2.position[1], p2.position[2], currentIteration)
    /\ ~isTabu(tabu, p2.instanceId, p1.position[1], p1.position[2], currentIteration)

ExecuteIfFeasible(c, mutation, feasible, instanceId) ==
    IF feasible.ok THEN executePlacement(c, mutation, feasible, instanceId) ELSE c

\* the swap branch once both placements are removed: feasible1 and feasible2
\* are both computed before either placement is executed
SwapOrRestore(c, move, feasible1, feasible2) ==
    IF feasible1.ok /\ feasible2.ok
    THEN executePlacement(
            executePlacement(c, move.mutation1, feasible1, move.placement1.instanceId),
            move.mutation2, feasible2, move.placement2.instanceId)
    ELSE ExecuteIfFeasible(
            ExecuteIfFeasible(c, move.mutation1,
                checkFeasibility(c, move.mutation1, move.placement1.position[1],
                                 move.placement1.position[2]),
                move.placement1.instanceId),
            move.mutation2,
            checkFeasibility(c, move.mutation2, move.placement2.position[1],
                             move.placement2.position[2]),
            move.placement2.instanceId)

SwapRemoved(c, move) ==
    SwapOrRestore(c, move,
        checkFeasibility(c, move.mutation1, move.placement2.position[1],
                         move.placement2.position[2]),
        checkFeasibility(c, move.mutation2, move.placement1.position[1],
                         move.placement1.position[2]))

applyMove(c, move, moveType) ==
    IF moveType = "relocate"
    THEN executePlacement(removePlacement(c, move.remove), move.mutation,
                          move.newPosition, move.remove)
    ELSE SwapRemoved(removePlacement(removePlacement(c, move.placement1.instanceId),
                                     move.placement2.instanceId), move)

\* outcomes of "Math.random() < acceptProbability": a move that does not lower
\* the fitness has probability 1, any other a probability strictly between 0 and 1
AcceptOutcomes(neighborFitness, currentFitness) ==
    IF FitnessGreater(currentFitness, neighborFitness) THEN {TRUE, FALSE} ELSE {TRUE}

\* best follows every accepted state, fitter or not
KeepLatest(neighbor, neighborFitness, currentBest) == neighbor

\* "if (currentFitness > bestFitness) best = current" for the state just
\* accepted; bestFitness is the fitness of the state best refers to
KeepBest(neighbor, neighborFitness, currentBest) ==
    IF FitnessGreater(neighborFitness, Fit(currentBest)) THEN neighbor ELSE currentBest

\* the tail of one SA iteration once the move was applied to a clone
SADecide(move, neighbor, neighborFitness) ==
    \E accept \in AcceptOutcomes(neighborFitness, Fit(ctx)) :
        /\ totalIterations' = totalIterations + 1
        /\ IF accept
           THEN /\ ctx' = neighbor
                /\ tabuList' = addToTabu(tabuList, move, totalIterations + 1)
                /\ saBest' = KeepBest(neighbor, neighborFitness, saBest)
           ELSE UNCHANGED <<ctx, tabuList, saBest>>

SAScore(move, neighbor) == SADecide(move, neighbor, Fit(neighbor))

SAIterate(move, moveType) == SAScore(move, applyMove(ctx, move, moveType))

RelocateTo(toMove, cands) ==
    \E k \in 1..Min2(5, Len(cands)) :
        SAIterate([remove |-> toMove.instanceId,
                   newPosition |-> cands[k].feasible,
                   mutation |-> parsed(toMove.mutationId)], "relocate")

\* an iteration with moveType 'relocate' and a move
SARelocate ==
    /\ pc = "sa"
    /\ totalIterations < MaxIterations
    /\ \E i \in DOMAIN ctx.mutations :
          RelocateTo(ctx.mutations[i],
                     RelocateCandidates(ctx, ctx.mutations[i], profile, tabuList,
                                        totalIterations + 1))
    /\ UNCHANGED <<inputVars, objectiveVars, cloneVars, auxVars, pc, strategy, profile, queue, gaVars, best, results>>

\* an iteration with moveType 'swap' and a move
SASwap ==
    /\ pc = "sa"
    /\ totalIterations < MaxIterations
    /\ Len(ctx.mutations) >= 2
    /\ \E i, j \in DOMAIN ctx.mutations :
          /\ i # j
          /\ SwapAllowed(ctx.mutations[i], ctx.mutations[j], tabuList, totalIterations + 1)
          /\ SAIterate([placement1 |-> ctx.mutations[i],
                        placement2 |-> ctx.mutations[j],
                        mutation1 |-> parsed(ctx.mutations[i].mutationId),
                        mutation2 |-> parsed(ctx.mutations[j].mutationId)], "swap")
    /\ UNCHANGED <<inputVars, objectiveVars, cloneVars, auxVars, pc, strategy, profile, queue, gaVars, best, results>>

\* generateMove returns null when the first min(3, n) shuffled placements have
\* no candidate, generateSwapMove when the two it drew cannot be swapped
NoMovePossible(all, stuck) ==
    \/ Cardinality(stuck) >= Min2(3, Len(all))
    \/ /\ Len(all) >= 2
       /\ \E i, j \in DOMAIN all :
             /\ i # j
             /\ ~SwapAllowed(all[i], all[j], tabuList, totalIterations + 1)

\* the iteration generates no move ("if (!move) continue")
SANoMove ==
    /\ pc = "sa"
    /\ totalIterations < MaxIterations
    /\ NoMovePossible(ctx.mutations,
                      {i \in DOMAIN ctx.mutations :
                          RelocateCandidates(ctx, ctx.mutations[i], profile, tabuList,
                                             totalIterations + 1) = <<>>})
    /\ totalIterations' = totalIterations + 1
    /\ UNCHANGED <<inputVars, objectiveVars, cloneVars, auxVars, pc, strategy, profile, ctx, queue, saBest, tabuList,
                   gaVars, best, results>>

\* ------------------------------------------------------------------------
\* BulkPlacer.  A pattern is the list of its placeCrop attempts in loop
\* order; a crop is laid, for '__pre__', where the cell is still free.
\* ------------------------------------------------------------------------
Lay(cell, type) == [cell |-> cell, type |-> type]

\* the cells a pattern's placeCrop calls lay a crop on: those free in c, each
\* taking the type of the first call that names it (it is occupied afterwards)
LaidCells(c, lays) ==
    {lays[i].cell : i \in {j \in DOMAIN lays : isFree(c, lays[j].cell[1], lays[j].cell[2])}}

FirstLay(lays, cell) ==
    lays[CHOOSE i \in DOMAIN lays :
            lays[i].cell = cell /\ \A j \in 1..(i - 1) : lays[j].cell # cell]

LayOn(c, lays, cells) ==
    [c EXCEPT
        !.crops = [d \in DOMAIN @ \cup cells |->
                      IF d \in cells
                      THEN [type |-> FirstLay(lays, d).type, mutations |-> {PRE}]
                      ELSE @[d]],
        !.occupied = @ \cup cells]

LayCrops(c, lays) == LayOn(c, lays, LaidCells(c, lays))

\* from, from + step, ... below `below`
Steps(from, below, step) ==
    [i \in 1..((below - from + step - 1) \div step) |-> from + (i - 1) * step]

\* all cells in the order of "for y ..., for x ..."
AllCells == Anchors(1, 1)

\* for y in ys, for x in xs: crop1 at (x, y), crop2 at (x + 1, y)
PairLays(xs, ys, crop1, crop2) ==
    [i \in 1..(2 * Len(xs) * Len(ys)) |->
        IF i % 2 = 1
        THEN Lay(<<xs[(((i - 1) \div 2) % Len(xs)) + 1],
                   ys[(((i - 1) \div 2) \div Len(xs)) + 1]>>, crop1)
        ELSE Lay(<<xs[(((i - 1) \div 2) % Len(xs)) + 1] + 1,
                   ys[(((i - 1) \div 2) \div Len(xs)) + 1]>>, crop2)]

TotalCropsNeeded(cropTypes) == SumSeq([i \in DOMAIN cropTypes |-> cropTypes[i].value])

\* the crop type owning index idx when the types are laid out needed by needed
RECURSIVE TypeAt(_, _)
TypeAt(cropTypes, idx) ==
    IF idx < Head(cropTypes).value THEN Head(cropTypes).key
    ELSE TypeAt(Tail(cropTypes), idx - Head(cropTypes).value)

\* Math.ceil(Math.sqrt(n))
CeilSqrt(n) == CHOOSE s \in 1..n : s * s >= n /\ (s - 1) * (s - 1) < n

LaysOn(cells, typeOf(_)) == [i \in DOMAIN cells |-> Lay(cells[i], typeOf(cells[i]))]

optimalTwoCropPattern(cropTypes) ==
    IF Len(cropTypes) = 2
    THEN PairLays(<<1, 4, 7>>, <<1, 4, 7>>, cropTypes[1].key, cropTypes[2].key)
            \o <<Lay(<<0, 0>>, cropTypes[1].key), Lay(<<1, 0>>, cropTypes[2].key),
                 Lay(<<GRID_SIZE - 2, 0>>, cropTypes[1].key),
                 Lay(<<GRID_SIZE - 1, 0>>, cropTypes[2].key)>>
    ELSE <<>>

maxDensityPattern(cropTypes) ==
    IF Len(cropTypes) = 2
    THEN PairLays(Steps(1, GRID_SIZE - 1, 3), Steps(1, GRID_SIZE, 3),
                  cropTypes[1].key, cropTypes[2].key)
    ELSE <<>>

sparseGridPattern(cropTypes) ==
    IF Len(cropTypes) = 2
    THEN PairLays(Steps(0, GRID_SIZE - 1, 3), Steps(1, GRID_SIZE, 3),
                  cropTypes[1].key, cropTypes[2].key)
    ELSE <<>>

stripedPattern(cropTypes, total) ==
    LaysOn(SelectSeq(AllCells, LAMBDA c : c[2] % (total + 1) < total),
           LAMBDA c : TypeAt(cropTypes, c[2] % (total + 1)))

alternatingRowPattern(cropTypes) ==
    IF Len(cropTypes) = 2
    THEN LaysOn(SelectSeq(AllCells, LAMBDA c : c[2] % 3 = 0),
                LAMBDA c : IF (c[1] + (c[2] \div 3)) % 2 = 0
                           THEN cropTypes[1].key ELSE cropTypes[2].key)
    ELSE stripedPattern(cropTypes, TotalCropsNeeded(cropTypes))

diagonalPattern(cropTypes, total) ==
    LaysOn(SelectSeq(AllCells, LAMBDA c : (c[1] + c[2]) % (total + 1) < total),
           LAMBDA c : TypeAt(cropTypes, (c[1] + c[2]) % (total + 1)))

\* the cells of "for x ..., for y ..."
Transposed(cells) == [i \in DOMAIN cells |-> <<cells[i][2], cells[i][1]>>]

denseGridPattern(cropTypes, spacing) ==
    LaysOn(SelectSeq(AllCells, LAMBDA c : c[2] % spacing = 0),
           LAMBDA c : cropTypes[((c[1] \div spacing) % Len(cropTypes)) + 1].key)
      \o LaysOn(SelectSeq(Transposed(AllCells), LAMBDA c : c[1] % spacing = 0),
                LAMBDA c : cropTypes[(((c[2] \div spacing) + 1) % Len(cropTypes)) + 1].key)

checkerboardPattern(cropTypes) ==
    LaysOn(SelectSeq(AllCells, LAMBDA c : (c[1] + c[2]) % (Len(cropTypes) + 1) < Len(cropTypes)),
           LAMBDA c : cropTypes[((c[1] + c[2]) % (Len(cropTypes) + 1)) + 1].key)

\* the patterns in the order placeBulk tries them
PatternCount == 8

PatternLays(k, cropTypes) ==
    CASE k = 1 -> optimalTwoCropPattern(cropTypes)
      [] k = 2 -> maxDensityPattern(cropTypes)
      [] k = 3 -> sparseGridPattern(cropTypes)
      [] k = 4 -> alternatingRowPattern(cropTypes)
      [] k = 5 -> diagonalPattern(cropTypes, TotalCropsNeeded(cropTypes))
      [] k = 6 -> stripedPattern(cropTypes, TotalCropsNeeded(cropTypes))
      [] k = 7 -> denseGridPattern(cropTypes, CeilSqrt(TotalCropsNeeded(cropTypes) + 1))
      [] OTHER -> checkerboardPattern(cropTypes)

\* matching crops around a cell, counted per type up to what the mutation needs
AdjacentCount(c, ring, type) ==
    Cardinality({i \in DOMAIN ring : ring[i] \in DOMAIN c.crops /\ c.crops[ring[i]].type = type})

FillScore(c, crops, ring) ==
    10 * SumSeq([i \in DOMAIN crops |->
                    Min2(AdjacentCount(c, ring, crops[i].key), crops[i].value)])

AllSatisfied(c, crops, ring) ==
    \A i \in DOMAIN crops : AdjacentCount(c, ring, crops[i].key) >= crops[i].value

FillEntries(c, mutation, anchors) ==
    [i \in DOMAIN anchors |->
        [x |-> anchors[i][1], y |-> anchors[i][2],
         score |-> FillScore(c, mutation.crops,
                             Ring(anchors[i][1], anchors[i][2], mutation.size[1],
                                  mutation.size[2]))]]

FillCandidates(c, mutation) ==
    StableSortDesc(
        FillEntries(c, mutation,
            SelectSeq(Anchors(mutation.size[1], mutation.size[2]),
                      LAMBDA a : /\ canFitRect(c, a[1], a[2], mutation.size[1], mutation.size[2])
                                 /\ AllSatisfied(c, mutation.crops,
                                                 Ring(a[1], a[2], mutation.size[1],
                                                      mutation.size[2])))))

\* the placing loop of fillMutations
RECURSIVE FillLoop(_, _, _, _, _)
FillTry(c, mutation, cands, placed, maxQuantity, feasible) ==
    IF feasible.ok
    THEN FillLoop(executePlacement(c, mutation, feasible, InstanceId(mutation.id, placed)),
                  mutation, Tail(cands), placed + 1, maxQuantity)
    ELSE FillLoop(c, mutation, Tail(cands), placed, maxQuantity)

FillLoop(c, mutation, cands, placed, maxQuantity) ==
    IF cands = <<>> \/ placed >= maxQuantity THEN c
    ELSE FillTry(c, mutation, cands, placed, maxQuantity,
                 checkFeasibility(c, mutation, Head(cands).x, Head(cands).y))

fillMutations(c, mutation, maxQuantity) ==
    FillLoop(c, mutation, FillCandidates(c, mutation), 0, maxQuantity)


FirstOrInfeasible(feasibles) == IF feasibles = <<>> THEN Infeasible ELSE Head(feasibles)

\* the first feasible placement in loop order, Infeasible when there is none
FirstFeasible(c, mutation) ==
    FirstOrInfeasible(FeasibleAnchors(c, mutation, Anchors(mutation.size[1], mutation.size[2])))

RECURSIVE FallbackLoop(_, _, _, _)
FallbackLoop(c, mutation, i, quantity) ==
    IF i >= quantity THEN c
    ELSE FallbackLoop(ExecuteIfFeasible(c, mutation, FirstFeasible(c, mutation),
                                        InstanceId(mutation.id, i)),
                      mutation, i + 1, quantity)

fallbackPlacement(mutation, quantity, unlockedSlots) ==
    FallbackLoop(NewContext(unlockedSlots), mutation, 0, quantity)

\* one pattern: a fresh context, the pre-laid crops, then fillMutations
RunPattern(k, mutation, quantity, unlockedSlots) ==
    fillMutations(LayCrops(NewContext(unlockedSlots), PatternLays(k, mutation.crops)),
                  mutation, quantity)

\* the loop over the patterns: a strictly larger result replaces the best,
\* and the loop ends as soon as the best places all that was asked
RECURSIVE PatternLoop(_, _, _, _, _)
PatternNext(k, bestResult, mutation, quantity, unlockedSlots) ==
    IF Len(bestResult.mutations) >= quantity \/ k = PatternCount THEN bestResult
    ELSE PatternLoop(k + 1, bestResult, mutation, quantity, unlockedSlots)

KeepBetter(k, bestResult, result) ==
    IF k = 1 \/ Len(result.mutations) > Len(bestResult.mutations) THEN result ELSE bestResult

PatternLoop(k, bestResult, mutation, quantity, unlockedSlots) ==
    PatternNext(k, KeepBetter(k, bestResult, RunPattern(k, mutation, quantity, unlockedSlots)),
                mutation, quantity, unlockedSlots)

BulkOf(mutation, quantity, unlockedSlots) ==
    IF mutation.requiresIsolation \/ mutation.size[1] > 1 \/ mutation.size[2] > 1
    THEN fallbackPlacement(mutation, quantity, unlockedSlots)
    ELSE IF mutation.crops = <<>>
    THEN fallbackPlacement(mutation, quantity, unlockedSlots)
    ELSE PatternLoop(1, NewContext(unlockedSlots), mutation, quantity, unlockedSlots)

placeBulk(mutationId, quantity, unlockedSlots) == BulkOf(parsed(mutationId), quantity, unlockedSlots)

\* ------------------------------------------------------------------------
\* GeneticOptimizer.  The population holds MaxPopulation individuals and the
\* loop runs MaxGenerations generations.
\* ------------------------------------------------------------------------
GA_ELITE_COUNT == 2

Individual(c) == [ctx |-> c, fitness |-> Fit(c)]

\* Array.prototype.sort((a, b) => b.fitness - a.fitness) on exact fractions
RECURSIVE SortByFitness(_)
InsertByFitness(sorted, e) ==
    SubSeq(sorted, 1, Cardinality({i \in DOMAIN sorted :
                                      ~FitnessGreater(e.fitness, sorted[i].fitness)}))
      \o <<e>>
      \o SubSeq(sorted, Cardinality({i \in DOMAIN sorted :
                                        ~FitnessGreater(e.fitness, sorted[i].fitness)}) + 1,
                Len(sorted))

SortByFitness(s) ==
    IF s = <<>> THEN <<>>
    ELSE InsertByFitness(SortByFitness(SubSeq(s, 1, Len(s) - 1)), s[Len(s)])

\* randomnessLevels[i % randomnessLevels.length], in tenths, for individual i (from 0)
RandomnessLevel(i) == i % 8

\* positionMap.get(instanceId): the position of the instance in parent2, if any
PositionIn(placements, instanceId) ==
    SelectSeq([i \in DOMAIN placements |-> placements[i]],
              LAMBDA p : p.instanceId = instanceId)

\* the position crossover settles on: parent2's, else parent1's, else the first feasible
CrossoverThird(child, mutation, feasible) ==
    IF feasible.ok THEN feasible ELSE FirstFeasible(child, mutation)

CrossoverSecond(child, mutation, p1, feasible) ==
    IF feasible.ok THEN feasible
    ELSE CrossoverThird(child, mutation,
                        checkFeasibility(child, mutation, p1.position[1], p1.position[2]))

CrossoverFeasible(child, mutation, p1, inParent2) ==
    CrossoverSecond(child, mutation, p1,
        IF inParent2 = <<>> THEN Infeasible
        ELSE checkFeasibility(child, mutation, inParent2[1].position[1],
                              inParent2[1].position[2]))

RECURSIVE CrossoverLoop(_, _, _)
CrossoverLoop(child, placements1, placements2) ==
    IF placements1 = <<>> THEN child
    ELSE CrossoverLoop(
            ExecuteIfFeasible(child, parsed(Head(placements1).mutationId),
                CrossoverFeasible(child, parsed(Head(placements1).mutationId),
                                  Head(placements1),
                                  PositionIn(placements2, Head(placements1).instanceId)),
                Head(placements1).instanceId),
            Tail(placements1), placements2)

crossover(parent1, parent2, unlockedSlots) ==
    CrossoverLoop(NewContext(unlockedSlots), parent1.ctx.mutations, parent2.ctx.mutations)

\* mutate once the placement is removed: outcomes of the random pick among the top five
MutateOutcomes(c, toMove, candidates) ==
    IF candidates = <<>> THEN {c}
    ELSE {executePlacement(c, parsed(toMove.mutationId), candidates[k].feasible,
                           toMove.instanceId) : k \in 1..Min2(5, Len(candidates))}

MutateRemoved(c, toMove, prof) ==
    MutateOutcomes(c, toMove, AllCandidates(c, parsed(toMove.mutationId), prof))

\* the contexts mutate can leave in the individual
mutate(c, prof) ==
    IF c.mutations = <<>> THEN {c}
    ELSE UNION {MutateRemoved(removePlacement(c, c.mutations[i].instanceId), c.mutations[i], prof) :
                   i \in DOMAIN c.mutations}

\* ------------------------------------------------------------------------
\* MultiStrategyOptimizer
\* ------------------------------------------------------------------------
\* index of the first target with quantity >= totalCount * 0.7, 0 when none
\* (exact on integers: totalCount stays below 10)
findDominantMutation(ts, totalCount) ==
    IF \E i \in DOMAIN ts : ts[i].quantity * 10 >= totalCount * 7
    THEN CHOOSE i \in DOMAIN ts :
            /\ ts[i].quantity * 10 >= totalCount * 7
            /\ \A j \in 1..(i - 1) : ~(ts[j].quantity * 10 >= totalCount * 7)
    ELSE 0

RowAnchors(w, y) == [i \in 1..(GRID_SIZE - w + 1) |-> <<i - 1, y>>]

\* "for y, for x: if feasible, place and break": the break leaves the x loop
\* only, so every row that has a feasible anchor receives the instance
RECURSIVE ExtraRows(_, _, _, _)
ExtraRows(c, mutation, instanceId, y) ==
    IF y > GRID_SIZE - mutation.size[2] THEN c
    ELSE ExtraRows(
            ExecuteIfFeasible(c, mutation,
                FirstOrInfeasible(FeasibleAnchors(c, mutation, RowAnchors(mutation.size[1], y))),
                instanceId),
            mutation, instanceId, y + 1)

RECURSIVE ExtraInstances(_, _, _, _)
ExtraInstances(c, mutation, i, quantity) ==
    IF i >= quantity THEN c
    ELSE ExtraInstances(ExtraRows(c, mutation, ExtraInstanceId(mutation.id, i), 0),
                        mutation, i + 1, quantity)

RECURSIVE addRemainingMutations(_, _)
addRemainingMutations(c, ts) ==
    IF ts = <<>> THEN c
    ELSE addRemainingMutations(
            ExtraInstances(c, parsed(Head(ts).mutationId), 0, Head(ts).quantity), Tail(ts))

StrategyLabel(k) ==
    IF k = 0 THEN "bulk-pattern-sa"
    ELSE IF k = 6 THEN "genetic-sa"
    ELSE STRATEGIES[k].name \o "-sa"

\* results.sort((a, b) => b.score.totalScore - a.score.totalScore)
RECURSIVE SortByTotalScore(_)
InsertByTotalScore(sorted, e) ==
    SubSeq(sorted, 1, Cardinality({i \in DOMAIN sorted :
                                      ~FitnessGreater(e.score, sorted[i].score)}))
      \o <<e>>
      \o SubSeq(sorted, Cardinality({i \in DOMAIN sorted :
                                        ~FitnessGreater(e.score, sorted[i].score)}) + 1,
                Len(sorted))

SortByTotalScore(rs) ==
    IF rs = <<>> THEN <<>>
    ELSE InsertByTotalScore(SortByTotalScore(SubSeq(rs, 1, Len(rs) - 1)), rs[Len(rs)])

NoContext == NewContext({})

\* greedy.solve(targets, unlockedSlots, prof) starts
BeginGreedy(prof) ==
    /\ profile' = prof
    /\ ctx' = NewContext(slots)
    /\ queue' = expandAndSort(targets)

\* sa.optimize(c, targetCount, prof) starts
BeginSA(c, prof) ==
    /\ pc' = "sa"
    /\ profile' = prof
    /\ ctx' = c
    /\ saBest' = c
    /\ tabuList' = <<>>
    /\ totalIterations' = 0

\* the test of the workload's size left out
NeverEmptyWorkload(ts) == FALSE

\* targetMutations.size === 0
IsEmptyWorkload(ts) == ts = <<>>

\* Array(GRID_SIZE).fill(null).map(() => Array(GRID_SIZE).fill(null)):
\* grid[y][x], rows and columns counted from 0
NullGrid == [y \in 0..(GRID_SIZE - 1) |-> [x \in 0..(GRID_SIZE - 1) |-> "null"]]

EmptyLayout(unlockedSlots) ==
    [grid |-> NullGrid, mutations |-> <<>>, unlockedSlots |-> unlockedSlots]

\* the score and the label optimizeLayoutAllStrategies attaches to the empty layout
EmptyScore ==
    [mutationsPlaced |-> 0, mutationsRequested |-> 0, placementRate |-> 100,
     totalCropsUsed |-> 0, sharedCrops |-> 0, cropEfficiency |-> 100,
     compactnessScore |-> 100, synergiesFound |-> 0, totalScore |-> 1000]

EmptyLayoutWithScore(unlockedSlots) ==
    [grid |-> NullGrid, mutations |-> <<>>, unlockedSlots |-> unlockedSlots,
     score |-> EmptyScore, strategyUsed |-> "none"]

\* optimizeLayout / optimizeLayoutAllStrategies on an empty workload: the
\* layout is returned before an optimizer is constructed
ReturnEmptyLayout ==
    /\ pc = "start"
    /\ IsEmptyWorkload(targets)
    /\ layout' = IF entry = "optimize" THEN EmptyLayout(slots)
                  ELSE <<EmptyLayoutWithScore(slots)>>
    /\ pc' = "done"
    /\ UNCHANGED <<inputVars, objectiveVars, cloneVars, unlockedGrid, firstRun, schedule, strategy, profile,
                   ctx, queue, saVars, gaVars, best, results>>

\* any other workload goes to optimize / optimizeAll, which is entered
Start ==
    /\ pc = "start"
    /\ ~IsEmptyWorkload(targets)
    /\ IF findDominantMutation(targets, targetCount) # 0
       THEN /\ pc' = "bulk"
            /\ strategy' = 0
            /\ UNCHANGED <<profile, ctx, queue>>
       ELSE /\ pc' = "greedy"
            /\ strategy' = 1
            /\ BeginGreedy(STRATEGIES[1])
    /\ UNCHANGED <<inputVars, objectiveVars, cloneVars, auxVars, saVars, gaVars, best, results>>

\* bulk.placeBulk for the dominant mutation
PlaceBulk ==
    /\ pc = "bulk"
    /\ ctx' = placeBulk(targets[findDominantMutation(targets, targetCount)].mutationId,
                        targets[findDominantMutation(targets, targetCount)].quantity, slots)
    /\ pc' = "extra"
    /\ UNCHANGED <<inputVars, objectiveVars, cloneVars, auxVars, strategy, profile, queue, saVars, gaVars, best, results>>

OtherTargets(ts, dominant) == SelectSeq(ts, LAMBDA t : t.mutationId # dominant.mutationId)

\* addRemainingMutations for the other targets, then the bulk context goes to SA
AddRemaining ==
    /\ pc = "extra"
    /\ BeginSA(addRemainingMutations(ctx,
                   OtherTargets(targets, targets[findDominantMutation(targets, targetCount)])),
               STRATEGIES[1])
    /\ UNCHANGED <<inputVars, objectiveVars, cloneVars, auxVars, strategy, queue, gaVars, best, results>>

GreedyPlace(mutation, candidates) ==
    IF candidates = <<>>
    THEN ctx' = ctx
    ELSE \E k \in GreedySelectable(candidates, profile) :
            ctx' = executePlacement(ctx, mutation, candidates[k].feasible,
                                    Head(queue).instanceId)

\* one pass of the loop of GreedySolver.solve
GreedyStep ==
    /\ pc \in {"greedy", "ga-init"}
    /\ queue # <<>>
    /\ GreedyPlace(parsed(Head(queue).mutationId),
                   AllCandidates(ctx, parsed(Head(queue).mutationId), profile))
    /\ queue' = Tail(queue)
    /\ UNCHANGED <<inputVars, objectiveVars, cloneVars, auxVars, pc, strategy, profile, saVars, gaVars, best, results>>

\* greedy.solve returns to optimize / optimizeAll, which hands the context to SA
GreedyReturn ==
    /\ pc = "greedy"
    /\ queue = <<>>
    /\ BeginSA(ctx, profile)
    /\ UNCHANGED <<inputVars, objectiveVars, cloneVars, auxVars, strategy, queue, gaVars, best, results>>

\* the result of a strategy: the score and the label of the context SA returned
\* (the context itself is saBest at that moment)
ResultOf(c, k) == [score |-> Fit(c), strategy |-> StrategyLabel(k)]

ResetSA ==
    /\ saBest' = NoContext
    /\ tabuList' = <<>>
    /\ totalIterations' = 0

\* optimize keeps the better result, optimizeAll collects every result
Record(result) ==
    IF entry = "optimize"
    THEN /\ best' = IF best = Null \/ FitnessGreater(result.score, best.score)
                    THEN result ELSE best
         /\ results' = results
    ELSE /\ results' = IF strategy = 6
                       THEN SortByTotalScore(Append(results, result))
                       ELSE Append(results, result)
         /\ best' = best

\* what follows the strategy that just ended
NextStrategy ==
    IF strategy < 5
    THEN /\ pc' = "greedy"
         /\ strategy' = strategy + 1
         /\ BeginGreedy(STRATEGIES[strategy + 1])
         /\ UNCHANGED gaVars
    ELSE IF strategy = 5
    THEN /\ pc' = "ga-init"
         /\ strategy' = 6
         /\ BeginGreedy([STRATEGIES[1] EXCEPT !.randomness = RandomnessLevel(0)])
         /\ population' = <<>>
         /\ UNCHANGED <<nextGen, gen>>
    ELSE /\ pc' = "done"
         /\ ctx' = NoContext
         /\ UNCHANGED <<strategy, profile, queue, gaVars>>

\* in optimize the bulk result is compared with best!.score while best is null
SAReturned(result) ==
    IF entry = "optimize" /\ strategy = 0 /\ best = Null
    THEN /\ pc' = "thrown"
         /\ UNCHANGED <<strategy, profile, ctx, queue, saVars, gaVars, best, results>>
    ELSE /\ Record(result)
         /\ ResetSA
         /\ NextStrategy

\* sa.optimize returns its best; the caller scores it and goes on
SAReturn ==
    /\ pc = "sa"
    /\ totalIterations = MaxIterations
    /\ SAReturned(ResultOf(saBest, strategy))
    /\ UNCHANGED <<inputVars, objectiveVars, cloneVars, auxVars>>

\* initializePopulation: one greedy solution is scored and pushed
GAInitReturn ==
    /\ pc = "ga-init"
    /\ queue = <<>>
    /\ population' = Append(population, Individual(ctx))
    /\ IF Len(population) + 1 < MaxPopulation
       THEN /\ BeginGreedy([STRATEGIES[1] EXCEPT
                               !.randomness = RandomnessLevel(Len(population) + 1)])
            /\ UNCHANGED <<pc, nextGen, gen>>
       ELSE /\ pc' = "ga"
            /\ profile' = STRATEGIES[1]
            /\ ctx' = NoContext
            /\ queue' = <<>>
            /\ nextGen' = <<>>
            /\ gen' = 0
    /\ UNCHANGED <<inputVars, objectiveVars, cloneVars, auxVars, strategy, saVars, best, results>>

Elite(sorted) == SubSeq(sorted, 1, Min2(GA_ELITE_COUNT, Len(sorted)))

GASorted(sorted) ==
    /\ population' = sorted
    /\ nextGen' = Elite(sorted)

\* a generation starts: sort by fitness, keep the elite
GASelect ==
    /\ pc = "ga"
    /\ gen < MaxGenerations
    /\ GASorted(SortByFitness(population))
    /\ pc' = "ga-fill"
    /\ UNCHANGED <<inputVars, objectiveVars, cloneVars, auxVars, strategy, profile, ctx, queue, saVars, gen, best, results>>

\* the child after the optional mutation
GAMutated(child) ==
    \E c \in {child} \cup mutate(child, profile) :
        nextGen' = Append(nextGen, Individual(c))

\* one pass of the while loop: two tournaments, crossover or clone, mutation
GAChild ==
    /\ pc = "ga-fill"
    /\ Len(nextGen) < MaxPopulation
    /\ \E p1, p2 \in DOMAIN population :
          \/ GAMutated(crossover(population[p1], population[p2], slots))
          \/ GAMutated(population[p1].ctx)
    /\ UNCHANGED <<inputVars, objectiveVars, cloneVars, auxVars, pc, strategy, profile, ctx, queue, saVars, population, gen,
                   best, results>>

\* population = nextGen
GANextGeneration ==
    /\ pc = "ga-fill"
    /\ Len(nextGen) >= MaxPopulation
    /\ population' = nextGen
    /\ nextGen' = <<>>
    /\ gen' = gen + 1
    /\ pc' = "ga"
    /\ UNCHANGED <<inputVars, objectiveVars, cloneVars, auxVars, strategy, profile, ctx, queue, saVars, best, results>>

\* ga.optimize returns the fittest individual, which goes to SA
GAReturn ==
    /\ pc = "ga"
    /\ gen = MaxGenerations
    /\ BeginSA(SortByFitness(population)[1].ctx, STRATEGIES[1])
    /\ population' = <<>>
    /\ nextGen' = <<>>
    /\ gen' = 0
    /\ UNCHANGED <<inputVars, objectiveVars, cloneVars, auxVars, strategy, queue, best, results>>

\* ------------------------------------------------------------------------
\* Inputs of the model and the specification
\* ------------------------------------------------------------------------
WorkloadIds == {"gloomgourd", "lonelily"}

UnlockedChoices == {{"gloomgourd", "lonelily"}}

\* a 3x2 window, four cells along a diagonal, and a row of six
SlotChoices ==
    {Rect(0, 0, 3, 2), {<<0, 0>>, <<1, 0>>, <<1, 1>>, <<2, 2>>}, Rect(0, 0, 6, 1)}

Target(id, q) == [mutationId |-> id, quantity |-> q]

SingleTargets == {<<Target(m, q)>> : m \in WorkloadIds, q \in 1..MaxQuantity}

\* two-entry workloads: one without a dominant mutation, and the two in
\* which one entry holds at least 70% of the instances
PairQuantities == {<<1, 1>>, <<MaxQuantity, 1>>, <<1, MaxQuantity>>}

PairTargets == {<<Target("gloomgourd", q[1]), Target("lonelily", q[2])>> : q \in PairQuantities}

TargetChoices == SingleTargets \cup PairTargets

Init ==
    /\ entry \in {"optimize", "optimizeAll"}
    /\ unlockedMutations \in UnlockedChoices
    /\ targets \in TargetChoices \cup {<<>>}
    /\ slots \in SlotChoices
    /\ cache = [id \in MutationIds |-> parse(id, unlockedMutations)]
    /\ pc = "start"
    /\ strategy = 0
    /\ profile = STRATEGIES[1]
    /\ ctx = NoContext
    /\ queue = <<>>
    /\ saBest = NoContext
    /\ tabuList = <<>>
    /\ totalIterations = 0
    /\ population = <<>>
    /\ nextGen = <<>>
    /\ gen = 0
    /\ best = Null
    /\ results = <<>>
    /\ ObjectiveIdle
    /\ CloneIdle
    /\ layout = NoLayout
    /\ unlockedGrid = NoGrid
    /\ firstRun = NoRun
    /\ schedule = NoSchedule

Next ==
    \/ ReturnEmptyLayout
    \/ Start
    \/ PlaceBulk
    \/ AddRemaining
    \/ GreedyStep
    \/ GreedyReturn
    \/ SARelocate
    \/ SASwap
    \/ SANoMove
    \/ SAReturn
    \/ GAInitReturn
    \/ GASelect
    \/ GAChild
    \/ GANextGeneration
    \/ GAReturn

Spec == Init /\ [][Next]_vars

\* ------------------------------------------------------------------------
\* The operations on one state, called one after the other: the instances of
\* a workload are placed through the checker and the Placer at anchors of
\* the caller's choice (as GeneticOptimizer.crossover places at the anchors
\* of its parents), the GA's mutation operator is applied, and the state is
\* handed to SimulatedAnnealing.  With these unlocked mutations godseed
\* depends on one gloomgourd.
\* ------------------------------------------------------------------------
OpsUnlocked == {"scourroot", "zombud", "dustgrain"}

OpsTargets == <<Target("gloomgourd", 1), Target("godseed", 1)>>

OpsSlots == Rect(0, 0, 3, 5)

InitOps ==
    /\ entry = "ops"
    /\ unlockedMutations = OpsUnlocked
    /\ targets = OpsTargets
    /\ slots = OpsSlots
    /\ cache = [id \in MutationIds |-> parse(id, unlockedMutations)]
    /\ pc = "ops"
    /\ strategy = 1
    /\ profile = STRATEGIES[1]
    /\ ctx = NewContext(slots)
    /\ queue = DropScore(Expand(targets))
    /\ saBest = NoContext
    /\ tabuList = <<>>
    /\ totalIterations = 0
    /\ population = <<>>
    /\ nextGen = <<>>
    /\ gen = 0
    /\ best = Null
    /\ results = <<>>
    /\ ObjectiveIdle
    /\ CloneIdle
    /\ layout = NoLayout
    /\ unlockedGrid = NoGrid
    /\ firstRun = NoRun
    /\ schedule = NoSchedule

OpExecute(instance, feasibles) ==
    IF feasibles = <<>>
    THEN ctx' = ctx
    ELSE \E k \in DOMAIN feasibles :
            ctx' = executePlacement(ctx, parsed(instance.mutationId), feasibles[k],
                                    instance.instanceId)

\* checkFeasibility, then executePlacement of what it returned; an instance
\* without a feasible anchor is skipped
OpPlace ==
    /\ pc = "ops"
    /\ queue # <<>>
    /\ OpExecute(Head(queue),
                 FeasibleAnchors(ctx, parsed(Head(queue).mutationId),
                                 Anchors(parsed(Head(queue).mutationId).size[1],
                                         parsed(Head(queue).mutationId).size[2])))
    /\ queue' = Tail(queue)
    /\ UNCHANGED <<inputVars, objectiveVars, cloneVars, auxVars, pc, strategy, profile, saVars, gaVars, best, results>>

\* GeneticOptimizer.mutate on the state
OpMutate ==
    /\ pc = "ops"
    /\ queue = <<>>
    /\ ctx' \in mutate(ctx, profile)
    /\ UNCHANGED <<inputVars, objectiveVars, cloneVars, auxVars, pc, strategy, profile, queue, saVars, gaVars, best, results>>

\* sa.optimize(ctx, targetCount, profile) is entered
OpAnneal ==
    /\ pc = "ops"
    /\ queue = <<>>
    /\ BeginSA(ctx, profile)
    /\ UNCHANGED <<inputVars, objectiveVars, cloneVars, auxVars, strategy, queue, gaVars, best, results>>

\* no two instances of this workload have the same size, so generateSwapMove
\* returns null for every pair: a swap iteration is SANoMove
NextOps ==
    \/ OpPlace
    \/ OpMutate
    \/ OpAnneal
    \/ SARelocate
    \/ SANoMove

SpecOps == InitOps /\ [][NextOps]_vars

\* ------------------------------------------------------------------------
\* GreedySolver.solve called on its own, on workloads that hold a mutation
\* and a mutation it depends on: the catalog's dependents of one-cell
\* mutations, and godseed with the unlocked mutations that make it depend on
\* one gloomgourd.
\* ------------------------------------------------------------------------
ChainPairs ==
    {<<"gloomgourd", "chocoberry">>, <<"veilshroom", "thornshade">>,
     <<"dustgrain", "duskbloom">>, <<"gloomgourd", "godseed">>}

ChainTargets ==
    {<<Target(pr[1], q), Target(pr[2], 1)>> : pr \in ChainPairs, q \in 1..MaxQuantity}
        \cup {<<Target(pr[2], 1), Target(pr[1], q)>> : pr \in ChainPairs, q \in 1..MaxQuantity}

\* the 3x5 window, and a 4x4 window
ChainSlots == {OpsSlots, Rect(0, 0, 4, 4)}

InitSolve ==
    /\ entry = "solve"
    /\ unlockedMutations = OpsUnlocked
    /\ targets \in ChainTargets
    /\ slots \in ChainSlots
    /\ cache = [id \in MutationIds |-> parse(id, unlockedMutations)]
    /\ pc = "greedy"
    /\ strategy \in {1, 5}
    /\ profile = STRATEGIES[strategy]
    /\ ctx = NewContext(slots)
    /\ queue = expandAndSort(targets)
    /\ saBest = NoContext
    /\ tabuList = <<>>
    /\ totalIterations = 0
    /\ population = <<>>
    /\ nextGen = <<>>
    /\ gen = 0
    /\ best = Null
    /\ results = <<>>
    /\ ObjectiveIdle
    /\ CloneIdle
    /\ layout = NoLayout
    /\ unlockedGrid = NoGrid
    /\ firstRun = NoRun
    /\ schedule = NoSchedule

\* solve returns { ctx, placements }
SolveReturn ==
    /\ entry = "solve"
    /\ pc = "greedy"
    /\ queue = <<>>
    /\ pc' = "done"
    /\ UNCHANGED <<inputVars, objectiveVars, cloneVars, auxVars, strategy, profile, ctx, queue, saVars, gaVars, best, results>>

NextSolve ==
    \/ GreedyStep
    \/ SolveReturn

SpecSolve == InitSolve /\ [][NextSolve]_vars

\* ------------------------------------------------------------------------
\* Objective mode (utils/optimizer): geometry.ts
\* ------------------------------------------------------------------------
IsKnown(mutationId) == mutationId \in MutationIds

\* computeFootprint: for dy, for dx
computeFootprint(w, h) == [i \in 1..(w * h) |-> <<(i - 1) % w, (i - 1) \div w>>]

DIRECTIONS ==
    << <<-1, -1>>, <<-1, 0>>, <<-1, 1>>, <<0, -1>>, <<0, 1>>, <<1, -1>>, <<1, 0>>, <<1, 1>> >>

\* the neighbours of every footprint cell, in the order the loops visit them
NeighbourOffsets(w, h) ==
    [k \in 1..(w * h * Len(DIRECTIONS)) |->
        LET f == computeFootprint(w, h)[((k - 1) \div Len(DIRECTIONS)) + 1]
            d == DIRECTIONS[((k - 1) % Len(DIRECTIONS)) + 1]
        IN  <<f[1] + d[1], f[2] + d[2]>>]

\* computeAdjacencyRing: a Set keeps the first insertion of each offset
computeAdjacencyRing(w, h) ==
    FirstOccurrences(SelectSeq(NeighbourOffsets(w, h), LAMBDA o : IsOutside(o, w, h)), <<>>)

getMutationGeometry(mutationId) ==
    LET size == getMutationData(mutationId).size
    IN  [width |-> size[1], height |-> size[2],
         footprint |-> computeFootprint(size[1], size[2]),
         adjacencyRing |-> computeAdjacencyRing(size[1], size[2])]

\* the geometry cache with every catalog id in it
geometryCache == [id \in MutationIds |-> getMutationGeometry(id)]

\* getGeometryCached computes a geometry once and returns the cached one
\* afterwards; the call's cache holds the geometry of every catalog id
getGeometryCached(mutationId) == cache[mutationId].geometry

getOccupiedCells(position, geometry) == ShiftAll(geometry.footprint, position[1], position[2])

getAdjacentCells(position, geometry) == ShiftAll(geometry.adjacencyRing, position[1], position[2])

isInBounds(cell) == InBounds(cell[1], cell[2])

canFitInGrid(position, geometry) ==
    \A c \in Range(getOccupiedCells(position, geometry)) : isInBounds(c)

canFitInUnlockedSlots(position, geometry, unlocked) ==
    \A c \in Range(getOccupiedCells(position, geometry)) : c \in unlocked

\* MUTATIONS_BY_SIZE.get(size): the catalog ids of that size
MUTATIONS_BY_SIZE(size) == {id \in DOMAIN cache : cache[id].size = size}

\* ------------------------------------------------------------------------
\* Objective mode: cropSolver
\* ------------------------------------------------------------------------
\* extractRequirements: a numeric condition is a mutation requirement when its
\* key is a key of MUTATIONS_DATA, a crop requirement otherwise; adjacentCrops
\* is -1 for null.
extractRequirements(conditions) ==
    [crops |-> SelectSeq(conditions, LAMBDA e : IsCounted(e) /\ e.key \notin MutationIds),
     mutations |-> SelectSeq(conditions, LAMBDA e : IsCounted(e) /\ e.key \in MutationIds),
     adjacentCrops |-> IF HasKey(conditions, "adjacent_crops")
                       THEN Required(conditions, "adjacent_crops") ELSE -1,
     special |-> HasKey(conditions, "special")]

\* extractRequirements(getMutationData(id).conditions) of every catalog id
CatalogRequirements == [id \in MutationIds |-> extractRequirements(getMutationData(id).conditions)]

\* per catalog id: its geometry, the requirements extractRequirements reads
\* off its conditions, its size and its tier
CatalogCache ==
    [id \in MutationIds |->
        [geometry |-> geometryCache[id], requirements |-> CatalogRequirements[id],
         size |-> getMutationData(id).size, tier |-> MUTATION_TIERS[id]]]

RequirementsOf(mutationId) == cache[mutationId].requirements

getRequiredCrops(mutationId) == RequirementsOf(mutationId).crops

getRequiredMutations(mutationId) == RequirementsOf(mutationId).mutations

needsIsolation(mutationId) == RequirementsOf(mutationId).adjacentCrops = 0

hasSpecialConditions(mutationId) == RequirementsOf(mutationId).special

\* the in-bounds adjacent cells of the mutation, in ring order
AdjacentInBounds(position, mutationId) ==
    SelectSeq(getAdjacentCells(position, getGeometryCached(mutationId)), isInBounds)

IsCropId(st, id) == id \in DOMAIN st.placedCrops

\* getAdjacentContents(...).adjacentCrops.get(cropType): the cells, in ring order
adjacentCropsOf(position, mutationId, st, cropType) ==
    SelectSeq(AdjacentInBounds(position, mutationId),
              LAMBDA c : IsCropId(st, st.grid[c]) /\ st.placedCrops[st.grid[c]].crop = cropType)

\* getAdjacentContents(...).totalAdjacentCrops
totalAdjacentCrops(position, mutationId, st) ==
    Len(SelectSeq(AdjacentInBounds(position, mutationId), LAMBDA c : IsCropId(st, st.grid[c])))

\* getAdjacentContents(...).adjacentMutations.get(mutationType): the placed ids
\* of that kind whose footprint holds an adjacent cell that is neither empty
\* nor a crop
adjacentMutationsOf(position, mutationId, st, mutationType) ==
    {id \in DOMAIN st.placedMutations :
        /\ st.placedMutations[id].mutationId = mutationType
        /\ \E c \in Range(AdjacentInBounds(position, mutationId)) :
              /\ st.grid[c] # NullId
              /\ ~IsCropId(st, st.grid[c])
              /\ c \in Range(getOccupiedCells(st.placedMutations[id].position,
                                              getGeometryCached(mutationType)))}

EnoughCrops(position, mutationId, st) ==
    \A i \in DOMAIN getRequiredCrops(mutationId) :
        Len(adjacentCropsOf(position, mutationId, st, getRequiredCrops(mutationId)[i].key))
            >= getRequiredCrops(mutationId)[i].value

EnoughMutations(position, mutationId, st) ==
    \A i \in DOMAIN getRequiredMutations(mutationId) :
        Cardinality(adjacentMutationsOf(position, mutationId, st,
                                        getRequiredMutations(mutationId)[i].key))
            >= getRequiredMutations(mutationId)[i].value

areConditionsSatisfied(mutationId, position, st) ==
    IF ~IsKnown(mutationId) THEN FALSE
    ELSE IF hasSpecialConditions(mutationId) THEN FALSE
    ELSE IF needsIsolation(mutationId) THEN totalAdjacentCrops(position, mutationId, st) = 0
    ELSE EnoughCrops(position, mutationId, st) /\ EnoughMutations(position, mutationId, st)

\* adjacent cells that are in bounds, unlocked and empty, in ring order
EmptyAdjacentCells(position, mutationId, st, unlocked) ==
    SelectSeq(AdjacentInBounds(position, mutationId),
              LAMBDA c : c \in unlocked /\ st.grid[c] = NullId)

\* Math.max(0, needed - existing) of the i-th required crop
StillNeeded(position, mutationId, st, i) ==
    Max2(0, getRequiredCrops(mutationId)[i].value
              - Len(adjacentCropsOf(position, mutationId, st, getRequiredCrops(mutationId)[i].key)))

remainingCropsNeeded(position, mutationId, st) ==
    SumSeq([i \in DOMAIN getRequiredCrops(mutationId) |-> StillNeeded(position, mutationId, st, i)])

canSatisfyConditions(mutationId, position, st, unlocked) ==
    IF ~IsKnown(mutationId) THEN FALSE
    ELSE IF hasSpecialConditions(mutationId) THEN FALSE
    ELSE IF needsIsolation(mutationId) THEN totalAdjacentCrops(position, mutationId, st) = 0
    ELSE /\ EnoughMutations(position, mutationId, st)
         /\ Len(EmptyAdjacentCells(position, mutationId, st, unlocked))
               >= remainingCropsNeeded(position, mutationId, st)

\* findCropPlacements: "null" when the empty cells run out, otherwise the
\* list of [crop, position] to place: for each required crop the existing
\* adjacent crops of that type (at most needed) followed by its slice of the
\* empty cells.  Crop types that reuse an existing crop were inserted in the
\* Map first.
CropSlice(position, mutationId, st, unlocked, i) ==
    LET type == getRequiredCrops(mutationId)[i].key
        needed == getRequiredCrops(mutationId)[i].value
        existing == adjacentCropsOf(position, mutationId, st, type)
        before == SumSeq([j \in 1..(i - 1) |-> StillNeeded(position, mutationId, st, j)])
        fresh == SubSeq(EmptyAdjacentCells(position, mutationId, st, unlocked),
                        before + 1, before + StillNeeded(position, mutationId, st, i))
        cells == SubSeq(existing, 1, Min2(needed, Len(existing))) \o fresh
    IN  [k \in DOMAIN cells |-> [crop |-> type, position |-> cells[k]]]

RECURSIVE Concat(_)
Concat(lists) == IF lists = <<>> THEN <<>> ELSE Head(lists) \o Concat(Tail(lists))

findCropPlacements(mutationId, position, st, unlocked) ==
    LET req == getRequiredCrops(mutationId)
        reusing == SelectSeq([i \in DOMAIN req |-> i],
                             LAMBDA i : Len(adjacentCropsOf(position, mutationId, st, req[i].key)) > 0)
        others == SelectSeq([i \in DOMAIN req |-> i],
                            LAMBDA i : Len(adjacentCropsOf(position, mutationId, st, req[i].key)) = 0)
        order == reusing \o others
    IN  IF remainingCropsNeeded(position, mutationId, st)
              > Len(EmptyAdjacentCells(position, mutationId, st, unlocked))
        THEN [found |-> FALSE, list |-> <<>>]
        ELSE [found |-> TRUE,
              list |-> Concat([k \in DOMAIN order |->
                                  CropSlice(position, mutationId, st, unlocked, order[k])])]

\* wouldViolateIsolation: the cell is adjacent to a placed mutation that needs isolation
wouldViolateIsolation(position, st) ==
    \E id \in DOMAIN st.placedMutations :
        /\ needsIsolation(st.placedMutations[id].mutationId)
        /\ position \in Range(getAdjacentCells(st.placedMutations[id].position,
                                               getGeometryCached(st.placedMutations[id].mutationId)))

\* ------------------------------------------------------------------------
\* Objective mode: stateManager.ts.  generateMutationId / generateCropId give
\* every placement a fresh id; an id is written here as the kind of object and
\* its anchor, which names one object of a state at a time.
\* ------------------------------------------------------------------------
generateMutationId(position) == <<"mutation", position[1], position[2]>>

generateCropId(position) == <<"crop", position[1], position[2]>>

isCellOccupied(st, position) == st.grid[position] # NullId

canPlaceMutation(mutationId, position, st, unlocked) ==
    /\ IsKnown(mutationId)
    /\ ~hasSpecialConditions(mutationId)
    /\ canFitInGrid(position, getGeometryCached(mutationId))
    /\ canFitInUnlockedSlots(position, getGeometryCached(mutationId), unlocked)
    /\ \A c \in Range(getOccupiedCells(position, getGeometryCached(mutationId))) :
          ~isCellOccupied(st, c)
    /\ canSatisfyConditions(mutationId, position, st, unlocked)

\* placeMutation, after canPlaceMutation held
placeMutation(mutationId, position, st) ==
    LET placedId == generateMutationId(position)
        cells == Range(getOccupiedCells(position, getGeometryCached(mutationId)))
    IN  [st EXCEPT !.grid = [c \in DOMAIN st.grid |-> IF c \in cells THEN placedId ELSE st.grid[c]],
                   !.placedMutations =
                       [id \in DOMAIN st.placedMutations \cup {placedId} |->
                           IF id = placedId
                           THEN [id |-> placedId, mutationId |-> mutationId,
                                 position |-> position, satisfyingCrops |-> <<>>]
                           ELSE st.placedMutations[id]]]

Without(f, k) == [x \in DOMAIN f \ {k} |-> f[x]]

\* a removal that leaves the crops of the mutation as they are
ReleaseNothingAt(st, position, placedId) == st

\* the inner loop of removeMutation for one recorded crop position: the first
\* crop at that position loses placedId and is deleted when nothing else uses it
ReleaseCropAt(st, position, placedId) ==
    IF \E cropId \in DOMAIN st.placedCrops : st.placedCrops[cropId].position = position
    THEN LET cropId == CHOOSE id \in DOMAIN st.placedCrops : st.placedCrops[id].position = position
             kept == SelectSeq(st.placedCrops[cropId].forMutations, LAMBDA id : id # placedId)
         IN  IF kept = <<>>
             THEN [st EXCEPT !.grid[position] = NullId,
                             !.placedCrops = Without(st.placedCrops, cropId)]
             ELSE [st EXCEPT !.placedCrops[cropId].forMutations = kept]
    ELSE st

RECURSIVE ReleaseCrops(_, _, _)
ReleaseCrops(st, positions, placedId) ==
    IF positions = <<>> THEN st
    ELSE ReleaseCrops(ReleaseCropAt(st, Head(positions), placedId), Tail(positions), placedId)

\* removeMutation of a placed id: returns the new state
removeMutation(placedId, st) ==
    IF placedId \notin DOMAIN st.placedMutations THEN st
    ELSE LET pm == st.placedMutations[placedId]
             cells == Range(getOccupiedCells(pm.position, getGeometryCached(pm.mutationId)))
             cleared == [st EXCEPT !.grid = [c \in DOMAIN st.grid |->
                                                IF c \in cells THEN NullId ELSE st.grid[c]]]
             released == ReleaseCrops(cleared,
                                      [i \in DOMAIN pm.satisfyingCrops |-> pm.satisfyingCrops[i].position],
                                      placedId)
         IN  [released EXCEPT !.placedMutations = Without(released.placedMutations, placedId)]

\* placeCrop of stateManager.ts: [success, st]
placeCropOnGrid(cropType, position, forMutationId, st, unlocked) ==
    IF position \notin unlocked THEN [success |-> FALSE, st |-> st]
    ELSE IF st.grid[position] # NullId
    THEN IF IsCropId(st, st.grid[position]) /\ st.placedCrops[st.grid[position]].crop = cropType
         THEN [success |-> TRUE,
               st |-> IF forMutationId \in Range(st.placedCrops[st.grid[position]].forMutations)
                      THEN st
                      ELSE [st EXCEPT !.placedCrops[st.grid[position]].forMutations =
                                          Append(@, forMutationId)]]
         ELSE [success |-> FALSE, st |-> st]
    ELSE IF wouldViolateIsolation(position, st) THEN [success |-> FALSE, st |-> st]
    ELSE LET placedId == generateCropId(position)
         IN  [success |-> TRUE,
              st |-> [st EXCEPT !.grid[position] = placedId,
                                !.placedCrops =
                                    [id \in DOMAIN st.placedCrops \cup {placedId} |->
                                        IF id = placedId
                                        THEN [id |-> placedId, crop |-> cropType,
                                              position |-> position,
                                              forMutations |-> <<forMutationId>>]
                                        ELSE st.placedCrops[id]]]]

\* the loop of placeRequiredCrops: a placed crop is recorded in satisfyingCrops
RecordCrop(r, placedId, crop) ==
    IF r.success
    THEN [r.st EXCEPT !.placedMutations[placedId].satisfyingCrops = Append(@, crop)]
    ELSE r.st

RECURSIVE PlaceEachCrop(_, _, _, _)
PlaceEachCrop(list, placedId, st, unlocked) ==
    IF list = <<>> THEN st
    ELSE PlaceEachCrop(Tail(list), placedId,
                       RecordCrop(placeCropOnGrid(Head(list).crop, Head(list).position,
                                                  placedId, st, unlocked),
                                  placedId, Head(list)),
                       unlocked)

\* the end of placeRequiredCrops: the conditions are verified on the state with the crops
VerifiedCrops(pm, placed) ==
    [ok |-> areConditionsSatisfied(pm.mutationId, pm.position, placed), st |-> placed]

\* placeRequiredCrops once findCropPlacements has returned
PlaceFound(placedId, st, unlocked, found) ==
    IF ~found.found THEN [ok |-> FALSE, st |-> st]
    ELSE VerifiedCrops(st.placedMutations[placedId],
                       PlaceEachCrop(found.list, placedId, st, unlocked))

\* placeRequiredCrops: [ok, st]
placeRequiredCrops(placedId, st, unlocked) ==
    IF needsIsolation(st.placedMutations[placedId].mutationId) THEN [ok |-> TRUE, st |-> st]
    ELSE PlaceFound(placedId, st, unlocked,
                    findCropPlacements(st.placedMutations[placedId].mutationId,
                                       st.placedMutations[placedId].position, st, unlocked))

\* the end of placeMutationWithCrops: a failed crop placement removes the mutation again
RollbackUnless(placedId, r) ==
    IF r.ok THEN [placed |-> TRUE, st |-> r.st]
    ELSE [placed |-> FALSE, st |-> removeMutation(placedId, r.st)]

\* placeMutationWithCrops: [placed, st]
placeMutationWithCrops(mutationId, position, st, unlocked) ==
    IF ~canPlaceMutation(mutationId, position, st, unlocked)
    THEN [placed |-> FALSE, st |-> st]
    ELSE RollbackUnless(generateMutationId(position),
                        placeRequiredCrops(generateMutationId(position),
                                           placeMutation(mutationId, position, st), unlocked))

InvalidIds(st) ==
    {id \in DOMAIN st.placedMutations :
        ~areConditionsSatisfied(st.placedMutations[id].mutationId,
                                st.placedMutations[id].position, st)}

RECURSIVE RemoveAll(_, _)
RemoveAll(ids, st) ==
    IF ids = {} THEN st
    ELSE LET id == CHOOSE i \in ids : TRUE
         IN  RemoveAll(ids \ {id}, removeMutation(id, st))

validateAndKeepState(st) == st

\* validateAndCleanState: the invalid ids are collected first, then removed
validateAndCleanState(st) == RemoveAll(InvalidIds(st), st)

\* the unlocked set in the order the designer inserts it: row by row
UnlockedInOrder(unlocked) ==
    SelectSeq([i \in 1..(GRID_SIZE * GRID_SIZE) |-> <<(i - 1) % GRID_SIZE, (i - 1) \div GRID_SIZE>>],
              LAMBDA c : c \in unlocked)

getEmptyUnlockedCells(st, unlocked) ==
    SelectSeq(UnlockedInOrder(unlocked), LAMBDA c : st.grid[c] = NullId)

\* ------------------------------------------------------------------------
\* Objective mode: scoring.  calculateMutationsScore adds 1 + tier * 0.25 +
\* area * 0.1 per placed mutation; the scores here are that sum times
\* ScoreScale, which keeps them integers.
\* ------------------------------------------------------------------------
ScoreScale == 20

MutationScore(mutationId) ==
    ScoreScale + (ScoreScale \div 4) * cache[mutationId].tier
               + (ScoreScale \div 10) * (cache[mutationId].size[1] * cache[mutationId].size[2])

calculateMutationsScore(st) ==
    LET ids == DOMAIN st.placedMutations
        kinds == {st.placedMutations[id].mutationId : id \in ids}
    IN  SumSeq([k \in 1..Len(MUTATIONS_DATA) |->
                   IF MUTATIONS_DATA[k].id \in kinds
                   THEN MutationScore(MUTATIONS_DATA[k].id)
                          * Cardinality({id \in ids : st.placedMutations[id].mutationId
                                                         = MUTATIONS_DATA[k].id})
                   ELSE 0])

\* calculateScore with objectiveType 'MAX_MUTATIONS'
calculateScore(st) == calculateMutationsScore(st)

\* ------------------------------------------------------------------------
\* Objective mode: annealingEngine.ts
\* ------------------------------------------------------------------------
MOVE_TYPES == {"ADD_MUTATION", "REMOVE_MUTATION", "MOVE_MUTATION", "SWAP_MUTATION"}

filterSpecialMutations(available) ==
    SelectSeq(available, LAMBDA id : ~hasSpecialConditions(id))

filterPlaceableMutations(available) ==
    SelectSeq(available,
              LAMBDA id : /\ ~hasSpecialConditions(id)
                          /\ \A i \in DOMAIN getRequiredMutations(id) :
                                getRequiredMutations(id)[i].key \in Range(available))

getCropOnlyMutations(available) ==
    SelectSeq(available,
              LAMBDA id : ~hasSpecialConditions(id) /\ getRequiredMutations(id) = <<>>)

\* the loop "for (const cell of cells)" of tryAddMutation, tryMoveMutation and
\* greedySeed: the mutation goes to the first cell that takes it
RECURSIVE FirstPlacement(_, _, _, _)
TakenOrNext(r, mutationId, rest, st, unlocked) ==
    IF r.placed THEN r ELSE FirstPlacement(mutationId, rest, st, unlocked)

FirstPlacement(mutationId, cells, st, unlocked) ==
    IF cells = <<>> THEN [placed |-> FALSE, st |-> st]
    ELSE IF ~canFitInUnlockedSlots(Head(cells), getGeometryCached(mutationId), unlocked)
    THEN FirstPlacement(mutationId, Tail(cells), st, unlocked)
    ELSE TakenOrNext(placeMutationWithCrops(mutationId, Head(cells), st, unlocked),
                     mutationId, Tail(cells), st, unlocked)

\* greedySeed's order for 'MAX_MUTATIONS': by tier descending, then by width ascending
SeedOrder(available) ==
    LET byTier == StableSortDesc([i \in DOMAIN getCropOnlyMutations(available) |->
                      [id |-> getCropOnlyMutations(available)[i],
                       score |-> cache[getCropOnlyMutations(available)[i]].tier]])
        byWidth == StableSortDesc([i \in DOMAIN byTier |->
                      [id |-> byTier[i].id,
                       score |-> 0 - cache[byTier[i].id].size[1]]])
    IN  [i \in DOMAIN byWidth |-> byWidth[i].id]

RECURSIVE SeedEach(_, _, _)
SeedEach(ids, st, unlocked) ==
    IF ids = <<>> THEN st
    ELSE SeedEach(Tail(ids),
                  FirstPlacement(Head(ids), getEmptyUnlockedCells(st, unlocked), st, unlocked).st,
                  unlocked)

greedySeed(st, available, unlocked) == SeedEach(SeedOrder(available), st, unlocked)

\* shuffleArray(cells) for a draw that puts the cell head first and leaves the
\* other cells in their order
ShuffledWith(cells, head) ==
    IF head \in Range(cells)
    THEN <<head>> \o SelectSeq(cells, LAMBDA c : c # head)
    ELSE cells

\* tryAddMutation with the mutation and the shuffle drawn
tryAddMutation(st, mutationId, head, unlocked) ==
    FirstPlacement(mutationId, ShuffledWith(getEmptyUnlockedCells(st, unlocked), head), st, unlocked)

\* tryRemoveMutation with the placed mutation drawn
tryRemoveMutation(st, placedId) == [placed |-> TRUE, st |-> removeMutation(placedId, st)]

\* tryMoveMutation: when no cell takes the mutation it is put back at its old position
RestoreUnless(r, pm, removed, unlocked) ==
    IF r.placed THEN r
    ELSE [placed |-> FALSE,
          st |-> placeMutationWithCrops(pm.mutationId, pm.position, removed, unlocked).st]

MoveFrom(pm, removed, head, unlocked) ==
    RestoreUnless(FirstPlacement(pm.mutationId,
                                 ShuffledWith(getEmptyUnlockedCells(removed, unlocked), head),
                                 removed, unlocked),
                  pm, removed, unlocked)

tryMoveMutation(st, placedId, head, unlocked) ==
    MoveFrom(st.placedMutations[placedId], removeMutation(placedId, st), head, unlocked)

\* getRandomMutationSameSize: the candidates
SameSizeCandidates(size, exclude, available) ==
    {id \in MUTATIONS_BY_SIZE(size) :
        id # exclude /\ id \in Range(available) /\ ~hasSpecialConditions(id)}

\* trySwapMutation with the new mutation drawn
SwapFrom(pm, removed, newMutationId, unlocked) ==
    RestoreUnless(placeMutationWithCrops(newMutationId, pm.position, removed, unlocked),
                  pm, removed, unlocked)

trySwapMutation(st, placedId, newMutationId, unlocked) ==
    SwapFrom(st.placedMutations[placedId], removeMutation(placedId, st), newMutationId, unlocked)

\* ------------------------------------------------------------------------
\* One run of the designer's optimizer (runOptimizer, single run mode, with
\* objectiveType 'MAX_MUTATIONS') on a garden that has room for a thornshade
\* between four veilshrooms.
\* ------------------------------------------------------------------------
MaxAnnealIterations == 10

GardenSlots ==
    {<<7, 0>>, <<8, 0>>, <<9, 0>>, <<7, 1>>, <<8, 1>>,
     <<0, 2>>, <<1, 2>>, <<2, 2>>, <<4, 2>>,
     <<0, 3>>, <<1, 3>>, <<2, 3>>, <<3, 3>>, <<4, 3>>, <<5, 3>>,
     <<0, 4>>, <<1, 4>>, <<2, 4>>, <<3, 4>>, <<4, 4>>, <<5, 4>>,
     <<0, 5>>, <<1, 5>>, <<2, 5>>, <<3, 5>>, <<4, 5>>, <<5, 5>>, <<7, 5>>, <<8, 5>>, <<9, 5>>,
     <<0, 6>>, <<2, 6>>, <<3, 6>>, <<4, 6>>, <<7, 6>>, <<8, 6>>,
     <<2, 7>>, <<3, 7>>,
     <<2, 8>>}

PoolChoices ==
    {<<"veilshroom", "thornshade">>, <<"thornshade">>, <<"godseed">>,
     <<"godseed", "jerryflower", "thornshade">>}

\* The draws of Math.random the runs take.  Iteration i may draw a move type
\* of RandomTape[i].moves; its shuffle puts RandomTape[i].head first; and
\* getRandomPlacedMutation returns the mutation anchored at
\* RandomTape[i].victim when there is one.  The mutation an ADD or a SWAP
\* draws and the acceptance draw are free.  Iterations past the tape draw
\* any move.
AddOnly(head) == [moves |-> {"ADD_MUTATION"}, head |-> head, victim |-> <<1, 3>>]

AnyMove(head) == [moves |-> MOVE_TYPES, head |-> head, victim |-> <<1, 3>>]

\* an ADD, or a MOVE of the mutation in the middle of the four veilshrooms
AddOrMoveMiddle(head) ==
    [moves |-> {"ADD_MUTATION", "MOVE_MUTATION"}, head |-> head, victim |-> <<2, 4>>]

RandomTape ==
    << AddOnly(<<3, 7>>), AddOnly(<<5, 5>>), AddOnly(<<5, 3>>), AddOnly(<<3, 5>>),
       AddOnly(<<1, 3>>), AddOnly(<<1, 5>>), AddOnly(<<3, 3>>), AddOnly(<<2, 4>>),
       AnyMove(<<1, 2>>), AddOrMoveMiddle(<<8, 5>>) >>

Draw(i) == IF i \in DOMAIN RandomTape THEN RandomTape[i] ELSE AnyMove(<<8, 6>>)

\* getRandomPlacedMutation under the draw of iteration i: the mutation anchored
\* at the drawn cell, or the first placement in row order when there is none
FirstAnchored(st) ==
    LET anchored == SelectSeq(UnlockedInOrder(slots),
                              LAMBDA c : generateMutationId(c) \in DOMAIN st.placedMutations)
    IN  generateMutationId(Head(anchored))

getRandomPlacedMutation(st, i) ==
    IF generateMutationId(Draw(i).victim) \in DOMAIN st.placedMutations
    THEN generateMutationId(Draw(i).victim)
    ELSE FirstAnchored(st)

placeableMutations == filterPlaceableMutations(availableMutations)

layoutVars == <<unlockedMutations, targets, cache, strategy, profile, ctx, queue,
                saVars, gaVars, best, results, cloneVars, auxVars>>

InitObjective ==
    /\ entry = "objective"
    /\ unlockedMutations = {}
    /\ targets = <<>>
    /\ slots = GardenSlots
    /\ cache = CatalogCache
    /\ pc = "scheduled"
    /\ strategy = 0
    /\ profile = STRATEGIES[1]
    /\ ctx = NoContext
    /\ queue = <<>>
    /\ saBest = NoContext
    /\ tabuList = <<>>
    /\ totalIterations = 0
    /\ population = <<>>
    /\ nextGen = <<>>
    /\ gen = 0
    /\ best = Null
    /\ results = <<>>
    /\ availableMutations \in PoolChoices
    /\ maxIterations = MaxAnnealIterations
    /\ curState = createEmptyState
    /\ bestState = createEmptyState
    /\ bestScore = 0
    /\ iteration = 0
    /\ history = <<>>
    /\ abortRef = FALSE
    /\ uiResult = NoResult
    /\ progress = NoProgress
    /\ CloneIdle
    /\ layout = NoLayout
    /\ unlockedGrid = NoGrid
    /\ firstRun = NoRun
    /\ schedule = NoSchedule

\* stopOptimizer: the Stop button, while the run waits for its timer
StopOptimizer ==
    /\ entry = "objective"
    /\ pc = "scheduled"
    /\ ~abortRef
    /\ abortRef' = TRUE
    /\ UNCHANGED <<entry, slots, pc, layoutVars, availableMutations, maxIterations, curState,
                   bestState, bestScore, iteration, history, uiResult, progress>>

OptimizerResult(st, iterations, finalScore, recorded) ==
    [state |-> st, iterations |-> iterations, finalScore |-> finalScore,
     bestScore |-> st.score, history |-> recorded]

\* state.score = calculateScore(state, objectiveType)
WithScore(st) == [st EXCEPT !.score = calculateScore(st)]

\* the timer callback calls optimizeLayout: an empty placeable pool returns at
\* once, otherwise the state is seeded and the loop begins
BeginOptimize ==
    /\ entry = "objective"
    /\ pc = "scheduled"
    /\ iteration' = 0
    /\ history' = <<>>
    /\ IF placeableMutations = <<>>
       THEN /\ pc' = "returned"
            /\ curState' = createEmptyState
            /\ bestState' = createEmptyState
            /\ bestScore' = 0
            /\ uiResult' = IF abortRef THEN uiResult
                           ELSE OptimizerResult(createEmptyState, 0, 0, <<>>)
       ELSE /\ pc' = "loop"
            /\ curState' = WithScore(greedySeed(createEmptyState, placeableMutations, slots))
            /\ bestState' = curState'
            /\ bestScore' = curState'.score
            /\ UNCHANGED uiResult
    /\ UNCHANGED <<entry, slots, layoutVars, availableMutations, maxIterations, abortRef, progress>>

\* the record onProgress is called with (the temperature is left out)
OptimizerProgress(i, st, bestSoFar) ==
    [iteration |-> i, maxIterations |-> maxIterations, currentScore |-> st.score,
     bestScore |-> bestSoFar, placedMutationsCount |-> Cardinality(DOMAIN st.placedMutations)]

\* a loop that would take the candidate whether or not the move succeeded
AcceptsUnconditionally(moveSucceeded, scored) == BOOLEAN

\* "if (moveSucceeded)" and the acceptance test inside it: the draws that can
\* make the candidate the state
AcceptChoices(moveSucceeded, scored) ==
    {accept \in BOOLEAN :
        /\ accept => moveSucceeded
        /\ (moveSucceeded /\ scored.score >= curState.score) => accept}

\* the state the loop goes on with: "state = candidate" or state as it was
Continued(accept, scored) == IF accept THEN scored ELSE curState

\* the rest of an iteration once the move has been tried on the candidate
Accept(moveSucceeded, scored) ==
    \E accept \in AcceptChoices(moveSucceeded, scored) :
        /\ curState' = Continued(accept, scored)
        /\ bestState' = IF accept /\ scored.score > bestScore THEN scored ELSE bestState
        /\ bestScore' = IF accept /\ scored.score > bestScore THEN scored.score ELSE bestScore
        /\ iteration' = iteration + 1
        /\ history' = IF (iteration + 1) % Max2(1, maxIterations \div 100) = 0
                      THEN Append(history, [iteration |-> iteration + 1,
                                            score |-> curState'.score])
                      ELSE history
        /\ progress' = IF (iteration + 1) % Max2(1, maxIterations \div 50) = 0
                       THEN OptimizerProgress(iteration + 1, curState', bestScore')
                       ELSE progress
        /\ UNCHANGED <<entry, slots, pc, layoutVars, availableMutations, maxIterations,
                       abortRef, uiResult>>

FinishIteration(moveSucceeded, candidate) == Accept(moveSucceeded, WithScore(candidate))

\* the rest of an iteration for what a try... function returned
FinishMove(r) == FinishIteration(r.placed, r.st)

InLoop(moveType) ==
    /\ entry = "objective"
    /\ pc = "loop"
    /\ iteration < maxIterations
    /\ moveType \in Draw(iteration + 1).moves

IterateAdd ==
    /\ InLoop("ADD_MUTATION")
    /\ \E mutationId \in Range(placeableMutations) :
          FinishMove(tryAddMutation(curState, mutationId, Draw(iteration + 1).head, slots))

IterateRemove ==
    /\ InLoop("REMOVE_MUTATION")
    /\ IF DOMAIN curState.placedMutations = {}
       THEN FinishIteration(FALSE, curState)
       ELSE FinishMove(tryRemoveMutation(curState,
                                         getRandomPlacedMutation(curState, iteration + 1)))

IterateMove ==
    /\ InLoop("MOVE_MUTATION")
    /\ IF DOMAIN curState.placedMutations = {}
       THEN FinishIteration(FALSE, curState)
       ELSE FinishMove(tryMoveMutation(curState, getRandomPlacedMutation(curState, iteration + 1),
                                       Draw(iteration + 1).head, slots))

\* the candidates of getRandomMutationSameSize for the placed mutation drawn
SwapCandidates(old) == SameSizeCandidates(cache[old].size, old, placeableMutations)

SwapPlaced(placedId) ==
    IF SwapCandidates(curState.placedMutations[placedId].mutationId) = {}
    THEN FinishIteration(FALSE, curState)
    ELSE \E newMutationId \in SwapCandidates(curState.placedMutations[placedId].mutationId) :
            FinishMove(trySwapMutation(curState, placedId, newMutationId, slots))

IterateSwap ==
    /\ InLoop("SWAP_MUTATION")
    /\ IF DOMAIN curState.placedMutations = {}
       THEN FinishIteration(FALSE, curState)
       ELSE SwapPlaced(getRandomPlacedMutation(curState, iteration + 1))

\* after the loop: the final validation of bestState, the return, and the
\* designer's callback, which keeps the result unless the run was stopped
ReturnResult ==
    /\ entry = "objective"
    /\ pc = "loop"
    /\ iteration = maxIterations
    /\ bestState' = WithScore(validateAndCleanState(bestState))
    /\ uiResult' = IF abortRef THEN uiResult
                   ELSE OptimizerResult(bestState', maxIterations, curState.score, history)
    /\ pc' = "returned"
    /\ UNCHANGED <<entry, slots, layoutVars, availableMutations, maxIterations, curState,
                   bestScore, iteration, history, abortRef, progress>>

NextObjective ==
    \/ StopOptimizer
    \/ BeginOptimize
    \/ IterateAdd
    \/ IterateRemove
    \/ IterateMove
    \/ IterateSwap
    \/ ReturnResult

SpecObjective == InitObjective /\ [][NextObjective]_vars

\* ------------------------------------------------------------------------
\* Object identity of a PlacementContext.  The containers of a context
\* (Grid.occupied, the CropRegistry Map and the Set of every crop entry, the
\* two MutationRegistry Maps, emptyZones) are objects on a heap,
\* heap[a] being the contents of the object at address a.  A context is the
\* record of the addresses of its containers; unlockedSlots is the one Set
\* every Grid shares and nothing writes.  Placement records are rebuilt by
\* clone ({...p, crops: [...p.crops]}) and never written in place, so they
\* are kept as values.
\* ------------------------------------------------------------------------
MapPut(m, k, v) == [c \in DOMAIN m \cup {k} |-> IF c = k THEN v ELSE m[c]]

MapDrop(m, k) == [c \in DOMAIN m \ {k} |-> m[c]]

\* the context as the operators of the engine read it
View(h, ref) ==
    [unlockedSlots  |-> ref.unlockedSlots,
     occupied       |-> h[ref.occupied],
     crops          |-> [c \in DOMAIN h[ref.crops] |->
                            [type |-> h[ref.crops][c].type,
                             mutations |-> h[h[ref.crops][c].mutations]]],
     mutations      |-> h[ref.mutations],
     cellToMutation |-> h[ref.cellToMutation],
     emptyZones     |-> h[ref.emptyZones]]

\* the writes of CropRegistry on the Map at mapAddr that lead to newCrops:
\* an existing entry has its Set written in place, a new entry gets a new
\* Set, a deleted entry had its Set emptied before the key was deleted
RECURSIVE StoreCrops(_, _, _, _)
StoreCrops(h, mapAddr, newCrops, pending) ==
    IF pending = {} THEN h
    ELSE LET k == CHOOSE c \in pending : TRUE
         IN  IF k \in DOMAIN h[mapAddr]
             THEN IF k \in DOMAIN newCrops
                  THEN StoreCrops([h EXCEPT ![h[mapAddr][k].mutations] = newCrops[k].mutations],
                                  mapAddr, newCrops, pending \ {k})
                  ELSE StoreCrops([h EXCEPT ![h[mapAddr][k].mutations] = {},
                                            ![mapAddr] = MapDrop(@, k)],
                                  mapAddr, newCrops, pending \ {k})
             ELSE StoreCrops([Append(h, newCrops[k].mutations) EXCEPT
                                 ![mapAddr] = MapPut(@, k, [type |-> newCrops[k].type,
                                                           mutations |-> Len(h) + 1])],
                             mapAddr, newCrops, pending \ {k})

\* the in-place writes of an operation that takes the context at ref to c
Store(h, ref, c) ==
    StoreCrops([h EXCEPT ![ref.occupied] = c.occupied,
                         ![ref.mutations] = c.mutations,
                         ![ref.cellToMutation] = c.cellToMutation,
                         ![ref.emptyZones] = c.emptyZones],
               ref.crops, c.crops, DOMAIN h[ref.crops] \cup DOMAIN c.crops)

\* Grid.clone: a new occupied Set, the same unlockedSlots
GridClone(h, ref) == [heap |-> Append(h, h[ref.occupied]), addr |-> Len(h) + 1]

RECURSIVE CloneEntries(_, _, _, _)
CloneEntries(h, from, to, pending) ==
    IF pending = {} THEN h
    ELSE LET k == CHOOSE c \in pending : TRUE
         IN  CloneEntries([Append(h, h[h[from][k].mutations]) EXCEPT
                              ![to] = MapPut(@, k, [type |-> h[from][k].type,
                                                    mutations |-> Len(h) + 1])],
                          from, to, pending \ {k})

\* a registry clone that copies the Map and keeps the entries of the original
CropRegistryCloneShallow(h, from) == [heap |-> Append(h, h[from]), addr |-> Len(h) + 1]

\* CropRegistry.clone: a new Map, and for every entry a new Set of its mutations
CropRegistryClone(h, from) ==
    [heap |-> CloneEntries(Append(h, EmptyMap), from, Len(h) + 1, DOMAIN h[from]),
     addr |-> Len(h) + 1]

\* MutationRegistry.clone: both Maps are new; returns the heap with the
\* placements at Len(h) + 1 and cellToMutation at Len(h) + 2
MutationRegistryClone(h, ref) ==
    Append(Append(h, [i \in DOMAIN h[ref.mutations] |->
                        [h[ref.mutations][i] EXCEPT !.crops = [j \in DOMAIN @ |-> @[j]]]]),
           h[ref.cellToMutation])

\* PlacementContext.clone
clone(h, ref) ==
    LET g == GridClone(h, ref)
        c == CropRegistryClone(g.heap, ref.crops)
        m == MutationRegistryClone(c.heap, ref)
    IN  [heap |-> Append(m, m[ref.emptyZones]),
         ref  |-> [unlockedSlots  |-> ref.unlockedSlots,
                   occupied       |-> g.addr,
                   crops          |-> c.addr,
                   mutations      |-> Len(c.heap) + 1,
                   cellToMutation |-> Len(c.heap) + 2,
                   emptyZones     |-> Len(m) + 1]]

\* Placer.executePlacement and Placer.removePlacement on the context at ref
ExecuteOn(h, ref, mutation, feasible, instanceId) ==
    Store(h, ref, executePlacement(View(h, ref), mutation, feasible, instanceId))

RemoveOn(h, ref, instanceId) == Store(h, ref, removePlacement(View(h, ref), instanceId))

\* FeasibilityChecker.checkFeasibility on the context at ref: it reads the
\* containers and writes none of them
CheckOn(h, ref, mutation, x, y) ==
    [heap |-> h, result |-> checkFeasibility(View(h, ref), mutation, x, y)]

\* ------------------------------------------------------------------------
\* A context is built, cloned, and the clone is worked on
\* ------------------------------------------------------------------------
MaxCloneOps == 2

CloneWorkload == {"gloomgourd", "lonelily"}

CloneSlots == Rect(0, 0, 3, 2)

\* new PlacementContext(unlockedSlots): the objects of the constructor
OriginalRef ==
    [unlockedSlots |-> CloneSlots, occupied |-> 1, crops |-> 2, mutations |-> 3,
     cellToMutation |-> 4, emptyZones |-> 5]

\* the placements of mutation id that are feasible in the context c
FeasibleIn(c, id) ==
    FeasibleAnchors(c, parsed(id), Anchors(parsed(id).size[1], parsed(id).size[2]))

NextInstance(c, id) == InstanceId(id, Len(c.mutations) + cloneOps + 1)

InitClone ==
    /\ entry = "clone"
    /\ unlockedMutations = {}
    /\ targets = <<>>
    /\ slots = CloneSlots
    /\ cache = [id \in MutationIds |-> parse(id, unlockedMutations)]
    /\ pc = "build"
    /\ strategy = 0
    /\ profile = STRATEGIES[1]
    /\ ctx = NoContext
    /\ queue = <<>>
    /\ saBest = NoContext
    /\ tabuList = <<>>
    /\ totalIterations = 0
    /\ population = <<>>
    /\ nextGen = <<>>
    /\ gen = 0
    /\ best = Null
    /\ results = <<>>
    /\ ObjectiveIdle
    /\ heap = <<{}, EmptyMap, <<>>, EmptyMap, {}>>
    /\ cloned = NoRef
    /\ snapshot = NoContext
    /\ cloneOps = 0
    /\ probe = NoProbe
    /\ layout = NoLayout
    /\ unlockedGrid = NoGrid
    /\ firstRun = NoRun
    /\ schedule = NoSchedule

cloneFrame == <<inputVars, objectiveVars, strategy, profile, ctx, queue, saVars, gaVars,
                best, results, auxVars>>

\* executePlacement on the original, before it is cloned
ExecuteOnOriginal ==
    /\ entry = "clone"
    /\ pc = "build"
    /\ Len(View(heap, OriginalRef).mutations) < MaxCloneOps
    /\ \E id \in CloneWorkload :
         \E k \in DOMAIN FeasibleIn(View(heap, OriginalRef), id) :
            heap' = ExecuteOn(heap, OriginalRef, parsed(id),
                              FeasibleIn(View(heap, OriginalRef), id)[k],
                              NextInstance(View(heap, OriginalRef), id))
    /\ UNCHANGED <<cloneFrame, pc, cloned, snapshot, cloneOps, probe>>

\* const c = original.clone()
TakeClone ==
    /\ entry = "clone"
    /\ pc = "build"
    /\ heap' = clone(heap, OriginalRef).heap
    /\ cloned' = clone(heap, OriginalRef).ref
    /\ snapshot' = View(heap, OriginalRef)
    /\ pc' = "cloned"
    /\ UNCHANGED <<cloneFrame, cloneOps, probe>>

ExecuteOnClone ==
    /\ entry = "clone"
    /\ pc = "cloned"
    /\ cloneOps < MaxCloneOps
    /\ \E id \in CloneWorkload :
         \E k \in DOMAIN FeasibleIn(View(heap, cloned), id) :
            heap' = ExecuteOn(heap, cloned, parsed(id), FeasibleIn(View(heap, cloned), id)[k],
                              NextInstance(View(heap, cloned), id))
    /\ cloneOps' = cloneOps + 1
    /\ UNCHANGED <<cloneFrame, pc, cloned, snapshot, probe>>

RemoveOnClone ==
    /\ entry = "clone"
    /\ pc = "cloned"
    /\ cloneOps < MaxCloneOps
    /\ \E i \in DOMAIN View(heap, cloned).mutations :
         heap' = RemoveOn(heap, cloned, View(heap, cloned).mutations[i].instanceId)
    /\ cloneOps' = cloneOps + 1
    /\ UNCHANGED <<cloneFrame, pc, cloned, snapshot, probe>>

\* checkFeasibility is called twice in a row with the same arguments, as the
\* solvers do when they scan the anchors again for the next instance; the
\* scenario ends with what the two calls returned
ProbeFeasibility ==
    /\ entry = "clone"
    /\ pc = "build"
    /\ \E id \in CloneWorkload, cell \in CloneSlots :
         LET first  == CheckOn(heap, OriginalRef, parsed(id), cell[1], cell[2])
             second == CheckOn(first.heap, OriginalRef, parsed(id), cell[1], cell[2])
         IN  /\ heap' = second.heap
             /\ probe' = [called |-> TRUE, mutationId |-> id, anchor |-> cell,
                          state |-> View(heap, OriginalRef),
                          first |-> first.result, second |-> second.result,
                          after |-> View(second.heap, OriginalRef)]
    /\ pc' = "probed"
    /\ UNCHANGED <<cloneFrame, cloned, snapshot, cloneOps>>

NextClone ==
    ExecuteOnOriginal \/ ProbeFeasibility \/ TakeClone \/ ExecuteOnClone \/ RemoveOnClone

SpecClone == InitClone /\ [][NextClone]_vars

\* ------------------------------------------------------------------------
\* checkFeasibility called at anchors on and off the board.  The unlocked
\* set is the caller's: a window that reaches over the edge of the board
\* holds keys of cells the board does not have, and only the bounds test of
\* Grid.isFree keeps a footprint off them.  The instances of the workload
\* are placed one after the other at any anchor the checker accepts.
\* ------------------------------------------------------------------------
\* the anchors a caller can pass: the board and a margin of two around it
EdgeAnchors == {<<x, y>> : x \in -2..(GRID_SIZE + 1), y \in -2..(GRID_SIZE + 1)}

\* a 6x6 window over the bottom-right corner and one over the top-left corner:
\* either holds a 4x4 corner of the board
EdgeSlots == {Rect(GRID_SIZE - 4, GRID_SIZE - 4, 6, 6), Rect(-2, -2, 6, 6)}

EdgeTargets ==
    {<<Target("gloomgourd", 2), Target("godseed", 1)>>,
     <<Target("lonelily", 1), Target("gloomgourd", 1), Target("godseed", 1)>>}

InitEdge ==
    /\ entry = "edge"
    /\ unlockedMutations = OpsUnlocked
    /\ targets \in EdgeTargets
    /\ slots \in EdgeSlots
    /\ cache = [id \in MutationIds |-> parse(id, unlockedMutations)]
    /\ pc = "edge"
    /\ strategy = 1
    /\ profile = STRATEGIES[1]
    /\ ctx = NewContext(slots)
    /\ queue = DropScore(Expand(targets))
    /\ saBest = NoContext
    /\ tabuList = <<>>
    /\ totalIterations = 0
    /\ population = <<>>
    /\ nextGen = <<>>
    /\ gen = 0
    /\ best = Null
    /\ results = <<>>
    /\ ObjectiveIdle
    /\ CloneIdle
    /\ layout = NoLayout
    /\ unlockedGrid = NoGrid
    /\ firstRun = NoRun
    /\ schedule = NoSchedule

\* the anchors of EdgeAnchors at which the checker returns a placement
AcceptedAnchors(c, mutation) ==
    {a \in EdgeAnchors : checkFeasibility(c, mutation, a[1], a[2]).ok}

\* checkFeasibility at an anchor of the caller's choice, then executePlacement
\* of the placement it returned
EdgePlace ==
    /\ pc = "edge"
    /\ queue # <<>>
    /\ \E a \in AcceptedAnchors(ctx, parsed(Head(queue).mutationId)) :
          ctx' = executePlacement(ctx, parsed(Head(queue).mutationId),
                                  checkFeasibility(ctx, parsed(Head(queue).mutationId),
                                                   a[1], a[2]),
                                  Head(queue).instanceId)
    /\ queue' = Tail(queue)
    /\ UNCHANGED <<inputVars, objectiveVars, cloneVars, auxVars, pc, strategy, profile, saVars, gaVars,
                   best, results>>

\* the checker returned null at every anchor: the instance is left out
EdgeSkip ==
    /\ pc = "edge"
    /\ queue # <<>>
    /\ AcceptedAnchors(ctx, parsed(Head(queue).mutationId)) = {}
    /\ queue' = Tail(queue)
    /\ UNCHANGED <<inputVars, objectiveVars, cloneVars, auxVars, pc, strategy, profile, ctx, saVars,
                   gaVars, best, results>>

NextEdge == EdgePlace \/ EdgeSkip

SpecEdge == InitEdge /\ [][NextEdge]_vars

\* ------------------------------------------------------------------------
\* One strategy called twice with the same arguments: GreedySolver.solve,
\* then SimulatedAnnealing.optimize on what it built.  No function of the
\* engine takes a seed; every draw is a call of Math.random.  The state the
\* first call returns is kept in firstRun, and the second call starts from
\* the same arguments.
\* ------------------------------------------------------------------------
RerunTargets == {<<Target("gloomgourd", 2)>>, <<Target("gloomgourd", 1), Target("lonelily", 1)>>}

RerunSlots == Rect(0, 0, 3, 2)

InitRerun ==
    /\ entry = "rerun"
    /\ unlockedMutations \in UnlockedChoices
    /\ targets \in RerunTargets
    /\ slots = RerunSlots
    /\ cache = [id \in MutationIds |-> parse(id, unlockedMutations)]
    /\ pc = "greedy"
    /\ strategy \in {1, 5}
    /\ profile = STRATEGIES[strategy]
    /\ ctx = NewContext(slots)
    /\ queue = expandAndSort(targets)
    /\ saBest = NoContext
    /\ tabuList = <<>>
    /\ totalIterations = 0
    /\ population = <<>>
    /\ nextGen = <<>>
    /\ gen = 0
    /\ best = Null
    /\ results = <<>>
    /\ ObjectiveIdle
    /\ CloneIdle
    /\ layout = NoLayout
    /\ unlockedGrid = NoGrid
    /\ firstRun = NoRun
    /\ schedule = NoSchedule

\* sa.optimize returns its best.  After the first call the strategy is called
\* again with the arguments of the first call.
RerunReturn ==
    /\ entry = "rerun"
    /\ pc = "sa"
    /\ totalIterations = MaxIterations
    /\ IF firstRun = NoRun
       THEN /\ firstRun' = [returned |-> TRUE, ctx |-> saBest]
            /\ pc' = "greedy"
            /\ BeginGreedy(STRATEGIES[strategy])
            /\ ResetSA
       ELSE /\ pc' = "done"
            /\ UNCHANGED <<firstRun, profile, ctx, queue, saVars>>
    /\ UNCHANGED <<inputVars, objectiveVars, cloneVars, layout, unlockedGrid, schedule, strategy, gaVars, best,
                   results>>

\* in this window every placement has an anchor to move to and the two
\* placements have the same size, so no iteration is left without a move
NextRerun ==
    \/ GreedyStep
    \/ GreedyReturn
    \/ SARelocate
    \/ SASwap
    \/ RerunReturn

SpecRerun == InitRerun /\ [][NextRerun]_vars

\* ------------------------------------------------------------------------
\* The temperature loop of SimulatedAnnealing.optimize.  The placement state
\* is left out: what the thirty iterations of one temperature step do to the
\* loop's counters is their outcome, the number of moves generated, the
\* number accepted, and whether an accepted state was fitter than the best.
\* The run draws the outcomes of its first MaxFreeSteps steps freely and
\* follows a habit afterwards.
\* A temperature is a whole number of TempScale-ths, a cooling rate a whole
\* number of RateScale-ths; a product is rounded down to the unit.
\* ------------------------------------------------------------------------
TempScale == 10000000

RateScale == 10000

SA_INITIAL_TEMP == 100

\* 0.97, in hundredths
SA_COOLING_RATE == 97

\* 0.01
SA_MIN_TEMP == TempScale \div 100

SA_ITERATIONS_PER_TEMP == 30

SA_REHEAT_THRESHOLD == 50

\* 0.5, in tenths
SA_REHEAT_FACTOR == 5

SA_MAX_REHEATS == 3

SA_CONVERGENCE_THRESHOLD == 100

MaxFreeSteps == 2

\* temperature * rate
Times(temperature, rate) ==
    (temperature \div RateScale) * rate + ((temperature % RateScale) * rate) \div RateScale

\* SA_COOLING_RATE * 0.98, SA_COOLING_RATE * 1.01 or SA_COOLING_RATE; the
\* acceptance ratio is acceptedMoves / totalMoves, 0 when no move was made
calculateAdaptiveCoolingRate(acceptedMoves, totalMoves, currentTemp) ==
    IF totalMoves > 0 /\ 2 * acceptedMoves > totalMoves
    THEN SA_COOLING_RATE * 98
    ELSE IF (totalMoves = 0 \/ 10 * acceptedMoves < totalMoves)
            /\ currentTemp > SA_MIN_TEMP * 10
    THEN SA_COOLING_RATE * 101
    ELSE SA_COOLING_RATE * 100

\* x * Math.pow(0.7, n)
RECURSIVE TimesPow07(_, _)
TimesPow07(x, n) == IF n = 0 THEN x ELSE TimesPow07((x \div 10) * 7, n - 1)

\* SA_INITIAL_TEMP * SA_REHEAT_FACTOR * Math.pow(0.7, reheats)
ReheatTemperature(reheats) ==
    TimesPow07(((SA_INITIAL_TEMP * TempScale) \div 10) * SA_REHEAT_FACTOR, reheats)

\* outcomes of the iterations of one temperature step
Outcome(moves, accepted, improved) ==
    [moves |-> moves, accepted |-> accepted, improved |-> improved]

\* no move was generated; every move was rejected; a third was accepted;
\* every move was accepted; and the last two with a new best among them
Outcomes ==
    {Outcome(0, 0, FALSE),
     Outcome(SA_ITERATIONS_PER_TEMP, 0, FALSE),
     Outcome(SA_ITERATIONS_PER_TEMP, SA_ITERATIONS_PER_TEMP \div 3, FALSE),
     Outcome(SA_ITERATIONS_PER_TEMP, SA_ITERATIONS_PER_TEMP, FALSE),
     Outcome(SA_ITERATIONS_PER_TEMP, SA_ITERATIONS_PER_TEMP \div 3, TRUE),
     Outcome(SA_ITERATIONS_PER_TEMP, SA_ITERATIONS_PER_TEMP, TRUE)}

\* a habit is the outcome of every step and, for an outcome with a new best,
\* the number of steps from one new best to the next
Habits ==
    {[outcome |-> o, every |-> k] : o \in Outcomes, k \in 1..3}

\* the outcomes the step after `steps` steps can have
StepOutcomes(steps, habit) ==
    IF steps < MaxFreeSteps THEN Outcomes
    ELSE {[habit.outcome EXCEPT !.improved = @ /\ steps % habit.every = 0]}

\* the counters when the for loop of a step ends and
\* "iterationsSinceImprovement += iterationsThisTemp" has run
AfterIterations(s, o) ==
    [s EXCEPT !.iterationsSinceImprovement =
                  (IF o.improved THEN 0 ELSE @) + SA_ITERATIONS_PER_TEMP,
              !.acceptedMoves = @ + o.accepted,
              !.totalMoves = @ + o.moves,
              !.steps = @ + 1]

\* "temperature *= adaptiveCoolingRate"
Cooled(s) ==
    [s EXCEPT !.temperature =
                  Times(@, calculateAdaptiveCoolingRate(s.acceptedMoves, s.totalMoves, @))]

\* the reheating test without the cap on the number of reheats
ReheatDueUncapped(s) == s.iterationsSinceImprovement >= SA_REHEAT_THRESHOLD

ReheatDue(s) ==
    s.iterationsSinceImprovement >= SA_REHEAT_THRESHOLD /\ s.reheats < SA_MAX_REHEATS

\* the reheating block
Reheated(s) ==
    IF ReheatDue(s)
    THEN [s EXCEPT !.temperature = ReheatTemperature(s.reheats),
                   !.reheats = @ + 1,
                   !.iterationsSinceImprovement = 0,
                   !.acceptedMoves = 0,
                   !.totalMoves = 0]
    ELSE s

Converged(s) == s.iterationsSinceImprovement >= SA_CONVERGENCE_THRESHOLD

\* "if (totalMoves > 100)": both counters are halved
Halved(s) ==
    IF s.totalMoves > 100
    THEN [s EXCEPT !.acceptedMoves = @ \div 2, !.totalMoves = @ \div 2]
    ELSE s

InitSchedule ==
    /\ entry = "schedule"
    /\ unlockedMutations = {}
    /\ targets = <<>>
    /\ slots = {}
    /\ cache = [id \in MutationIds |-> parse(id, unlockedMutations)]
    /\ pc = "cooling"
    /\ strategy = 0
    /\ profile = STRATEGIES[1]
    /\ ctx = NoContext
    /\ queue = <<>>
    /\ saBest = NoContext
    /\ tabuList = <<>>
    /\ totalIterations = 0
    /\ population = <<>>
    /\ nextGen = <<>>
    /\ gen = 0
    /\ best = Null
    /\ results = <<>>
    /\ ObjectiveIdle
    /\ CloneIdle
    /\ layout = NoLayout
    /\ unlockedGrid = NoGrid
    /\ firstRun = NoRun
    /\ \E h \in Habits :
          schedule = [temperature |-> SA_INITIAL_TEMP * TempScale,
                      iterationsSinceImprovement |-> 0,
                      reheats |-> 0,
                      acceptedMoves |-> 0,
                      totalMoves |-> 0,
                      steps |-> 0,
                      habit |-> h]

scheduleFrame ==
    <<inputVars, objectiveVars, cloneVars, layout, unlockedGrid, firstRun, strategy, profile, ctx, queue,
      saVars, gaVars, best, results>>

StepEnds(s) ==
    IF Converged(s)
    THEN /\ schedule' = s
         /\ pc' = "returned"
    ELSE /\ schedule' = Halved(s)
         /\ pc' = "cooling"

\* one pass of the while loop: the iterations, the cooling, the reheating
\* block, the convergence test and the halving of the counters
TemperatureStep ==
    /\ pc = "cooling"
    /\ schedule.temperature > SA_MIN_TEMP
    /\ \E o \in StepOutcomes(schedule.steps, schedule.habit) :
          StepEnds(Reheated(Cooled(AfterIterations(schedule, o))))
    /\ UNCHANGED scheduleFrame

\* the while condition fails: optimize returns best
LoopExit ==
    /\ pc = "cooling"
    /\ ~(schedule.temperature > SA_MIN_TEMP)
    /\ pc' = "returned"
    /\ UNCHANGED <<scheduleFrame, schedule>>

NextSchedule == TemperatureStep \/ LoopExit

SpecSchedule == InitSchedule /\ [][NextSchedule]_vars

\* a loop that can go on does go on
SpecScheduleFair == SpecSchedule /\ WF_vars(NextSchedule)

\* ------------------------------------------------------------------------
\* Strategy 0 of MultiStrategyOptimizer.optimize on a 4x4 window: placeBulk
\* for the dominant mutation, addRemainingMutations for the other target,
\* then sa.optimize.
\* ------------------------------------------------------------------------
BulkTargets ==
    {<<Target("gloomgourd", 1), Target("lonelily", MaxQuantity)>>,
     <<Target("gloomgourd", MaxQuantity), Target("lonelily", 1)>>}

BulkSlots == Rect(0, 0, 4, 4)

InitBulk ==
    /\ entry = "bulk"
    /\ unlockedMutations \in UnlockedChoices
    /\ targets \in BulkTargets
    /\ slots = BulkSlots
    /\ cache = [id \in MutationIds |-> parse(id, unlockedMutations)]
    /\ pc = "bulk"
    /\ strategy = 0
    /\ profile = STRATEGIES[1]
    /\ ctx = NoContext
    /\ queue = <<>>
    /\ saBest = NoContext
    /\ tabuList = <<>>
    /\ totalIterations = 0
    /\ population = <<>>
    /\ nextGen = <<>>
    /\ gen = 0
    /\ best = Null
    /\ results = <<>>
    /\ ObjectiveIdle
    /\ CloneIdle
    /\ layout = NoLayout
    /\ unlockedGrid = NoGrid
    /\ firstRun = NoRun
    /\ schedule = NoSchedule

\* sa.optimize returns its best
BulkReturn ==
    /\ entry = "bulk"
    /\ pc = "sa"
    /\ totalIterations = MaxIterations
    /\ pc' = "done"
    /\ UNCHANGED <<inputVars, objectiveVars, cloneVars, auxVars, strategy, profile, ctx, queue,
                   saVars, gaVars, best, results>>

NextBulk ==
    \/ PlaceBulk
    \/ AddRemaining
    \/ SARelocate
    \/ SASwap
    \/ BulkReturn

SpecBulk == InitBulk /\ [][NextBulk]_vars

\* ------------------------------------------------------------------------
\* GreedySolver.solve and sa.optimize on the fully unlocked board for one
\* 3x3 mutation whose only condition is adjacent_crops: 0.  The catalog has
\* no such mutation: the parser's data source answers for the id "godseed"
\* with the record below, and the rest of the call is the code's.
\* ------------------------------------------------------------------------
IsolatedGodseed ==
    [id |-> "godseed", size |-> <<3, 3>>, effects |-> GodseedEffects,
     conditions |-> <<[key |-> "adjacent_crops", value |-> 0, numeric |-> TRUE]>>]

FullBoard == Rect(0, 0, GRID_SIZE, GRID_SIZE)

InitSingle ==
    /\ entry = "single"
    /\ unlockedMutations = {"godseed"}
    /\ targets = <<Target("godseed", 1)>>
    /\ slots = FullBoard
    /\ cache = [id \in MutationIds |->
                   IF id = "godseed" THEN ParseRaw(id, IsolatedGodseed)
                   ELSE parse(id, unlockedMutations)]
    /\ pc = "greedy"
    /\ strategy \in DOMAIN STRATEGIES
    /\ profile = STRATEGIES[strategy]
    /\ ctx = NewContext(slots)
    /\ queue = expandAndSort(targets)
    /\ saBest = NoContext
    /\ tabuList = <<>>
    /\ totalIterations = 0
    /\ population = <<>>
    /\ nextGen = <<>>
    /\ gen = 0
    /\ best = Null
    /\ results = <<>>
    /\ ObjectiveIdle
    /\ CloneIdle
    /\ layout = NoLayout
    /\ unlockedGrid = NoGrid
    /\ firstRun = NoRun
    /\ schedule = NoSchedule

\* sa.optimize returns its best
SingleReturn ==
    /\ entry = "single"
    /\ pc = "sa"
    /\ totalIterations = MaxIterations
    /\ pc' = "done"
    /\ UNCHANGED <<inputVars, objectiveVars, cloneVars, auxVars, strategy, profile, ctx, queue,
                   saVars, gaVars, best, results>>

\* one placement has no partner to swap with
NextSingle ==
    \/ GreedyStep
    \/ GreedyReturn
    \/ SARelocate
    \/ SingleReturn

SpecSingle == InitSingle /\ [][NextSingle]_vars

\* ------------------------------------------------------------------------
\* The unlocked-mutations page (toggleMutation, selectAll, clearAll) and the
\* MutationParser built for the selection.  cache is what the last parser
\* built answers; pc is "parsed" while it belongs to the present selection.
\* ------------------------------------------------------------------------
TogglePool ==
    {"dustgrain", "coalroot", "gloomgourd", "zombud", "turtlellini", "scourroot", "ashwreath"}

UnlockIdle ==
    /\ targets = <<>>
    /\ slots = {}
    /\ strategy = 0
    /\ profile = STRATEGIES[1]
    /\ ctx = NoContext
    /\ queue = <<>>
    /\ saBest = NoContext
    /\ tabuList = <<>>
    /\ totalIterations = 0
    /\ population = <<>>
    /\ nextGen = <<>>
    /\ gen = 0
    /\ best = Null
    /\ results = <<>>
    /\ ObjectiveIdle
    /\ CloneIdle
    /\ layout = NoLayout
    /\ unlockedGrid = NoGrid
    /\ firstRun = NoRun
    /\ schedule = NoSchedule

InitUnlock ==
    /\ entry = "unlock"
    /\ unlockedMutations = {}
    /\ cache = [id \in MutationIds |-> parse(id, unlockedMutations)]
    /\ pc = "parsed"
    /\ UnlockIdle

unlockKept == <<entry, targets, slots, cache, objectiveVars, cloneVars, auxVars, strategy,
                profile, ctx, queue, saVars, gaVars, best, results>>

toggleMutation ==
    /\ entry = "unlock"
    /\ \E mutationId \in TogglePool :
          unlockedMutations' = IF mutationId \in unlockedMutations
                               THEN unlockedMutations \ {mutationId}
                               ELSE unlockedMutations \cup {mutationId}
    /\ pc' = "select"
    /\ UNCHANGED unlockKept

selectAll ==
    /\ entry = "unlock"
    /\ unlockedMutations' = MutationIds
    /\ pc' = "select"
    /\ UNCHANGED unlockKept

clearAll ==
    /\ entry = "unlock"
    /\ unlockedMutations' = {}
    /\ pc' = "select"
    /\ UNCHANGED unlockKept

\* new MutationParser(unlockedMutations)
NewParser ==
    /\ entry = "unlock"
    /\ pc = "select"
    /\ cache' = [id \in MutationIds |-> parse(id, unlockedMutations)]
    /\ pc' = "parsed"
    /\ UNCHANGED <<entry, unlockedMutations, targets, slots, objectiveVars, cloneVars, auxVars,
                   strategy, profile, ctx, queue, saVars, gaVars, best, results>>

NextUnlock ==
    \/ toggleMutation
    \/ selectAll
    \/ clearAll
    \/ NewParser

SpecUnlock == InitUnlock /\ [][NextUnlock]_vars

\* ------------------------------------------------------------------------
\* LayoutView.generateLayout: the true cells of the unlockedSlots prop become
\* the keys of unlockedSet, optimizeLayout runs optimize on them and builds
\* the grid of the best result, and setLayout keeps it for the render.  A key
\* `${a},${b}` is the pair <<a, b>>; cellKey(x, y) is <<x, y>>.
\* ------------------------------------------------------------------------
ViewKey(rowIndex, colIndex) == <<rowIndex, colIndex>>

\* unlockedSlots.forEach((row, rowIndex) => row.forEach((unlocked, colIndex) => ...))
UnlockedSetOf(rows) == {ViewKey(cell[1], cell[2]) : cell \in rows}

NullCell == [type |-> "null"]

MutationArea(p, x, y) ==
    [type |-> "mutation_area",
     mutationId |-> p.mutationId,
     isCenter |-> (x - p.position[1] = p.size[1] \div 2 /\ y - p.position[2] = p.size[2] \div 2),
     needsIsolation |-> p.needsIsolation]

EmptyZone(p) == [type |-> "empty_zone", forMutation |-> p.mutationId]

CropCell(cropInfo) == [type |-> "crop", crop |-> cropInfo.type, forMutations |-> cropInfo.mutations]

\* placements writing a mutation_area on the cell; the last one stays
AreasOn(c, x, y) == {i \in DOMAIN c.mutations : <<x, y>> \in FootprintOf(c.mutations[i])}

\* isolated placements whose ring holds the cell; the first one marks it,
\* if the cell is unlocked and still null
ZonesOn(c, x, y) ==
    {i \in DOMAIN c.mutations :
        /\ c.mutations[i].needsIsolation
        /\ <<x, y>> \in Range(Ring(c.mutations[i].position[1], c.mutations[i].position[2],
                                   c.mutations[i].size[1], c.mutations[i].size[2]))}

LastOf(is) == CHOOSE i \in is : \A j \in is : j <= i

FirstOf(is) == CHOOSE i \in is : \A j \in is : i <= j

\* the cell grid[y][x] of buildGrid
GridCell(c, unlockedSlots, x, y) ==
    IF AreasOn(c, x, y) # {}
    THEN MutationArea(c.mutations[LastOf(AreasOn(c, x, y))], x, y)
    ELSE IF ZonesOn(c, x, y) # {} /\ <<x, y>> \in unlockedSlots
    THEN EmptyZone(c.mutations[FirstOf(ZonesOn(c, x, y))])
    ELSE IF <<x, y>> \in DOMAIN c.crops
    THEN CropCell(c.crops[<<x, y>>])
    ELSE NullCell

buildGrid(c, unlockedSlots) ==
    [y \in 0..(GRID_SIZE - 1) |-> [x \in 0..(GRID_SIZE - 1) |-> GridCell(c, unlockedSlots, x, y)]]

\* optimizeLayout's return value for the result whose context is c
LayoutOf(c, unlockedSlots) ==
    [grid |-> buildGrid(c, unlockedSlots), unlockedSlots |-> unlockedSlots]

\* three rows of two columns, four cells along a diagonal, six rows of one
\* column, and a square
ViewPatterns ==
    {{<<rowIndex, colIndex>> : rowIndex \in 0..2, colIndex \in 0..1},
     {<<0, 0>>, <<1, 0>>, <<1, 1>>, <<2, 2>>},
     {<<rowIndex, 0>> : rowIndex \in 0..5},
     {<<rowIndex, colIndex>> : rowIndex \in 0..1, colIndex \in 0..1}}

ViewTargets == <<Target("gloomgourd", 1), Target("lonelily", 1)>>

InitView ==
    /\ entry = "optimize"
    /\ unlockedMutations = MutationIds
    /\ targets = ViewTargets
    /\ slots = {}
    /\ cache = [id \in MutationIds |-> parse(id, unlockedMutations)]
    /\ pc = "view"
    /\ strategy = 0
    /\ profile = STRATEGIES[1]
    /\ ctx = NoContext
    /\ queue = <<>>
    /\ saBest = NoContext
    /\ tabuList = <<>>
    /\ totalIterations = 0
    /\ population = <<>>
    /\ nextGen = <<>>
    /\ gen = 0
    /\ best = Null
    /\ results = <<>>
    /\ ObjectiveIdle
    /\ CloneIdle
    /\ layout = NoLayout
    /\ unlockedGrid \in ViewPatterns
    /\ firstRun = NoRun
    /\ schedule = NoSchedule

\* the button is pressed: unlockedSet is filled and optimizeLayout is called
generateLayout ==
    /\ pc = "view"
    /\ slots' = UnlockedSetOf(unlockedGrid)
    /\ pc' = "start"
    /\ UNCHANGED <<entry, unlockedMutations, targets, cache, objectiveVars, cloneVars, auxVars,
                   strategy, profile, ctx, queue, saVars, gaVars, best, results>>

\* sa.optimize returns its best inside optimizeLayout: layout follows the
\* context of the best result, from which the grid is built and set when
\* optimize returns
ViewSAReturn ==
    /\ pc = "sa"
    /\ totalIterations = MaxIterations
    /\ SAReturned(ResultOf(saBest, strategy))
    /\ layout' = IF best = Null \/ FitnessGreater(Fit(saBest), best.score)
                 THEN LayoutOf(saBest, slots) ELSE layout
    /\ UNCHANGED <<inputVars, objectiveVars, cloneVars, unlockedGrid, firstRun, schedule>>

NextView ==
    \/ generateLayout
    \/ Start
    \/ GreedyStep
    \/ GreedyReturn
    \/ SARelocate
    \/ SASwap
    \/ SANoMove
    \/ ViewSAReturn
    \/ GAInitReturn
    \/ GASelect
    \/ GAChild
    \/ GANextGeneration
    \/ GAReturn

SpecView == InitView /\ [][NextView]_vars

\* ------------------------------------------------------------------------
\* Properties of the placement states.  Contexts are the states the call
\* holds: the one under construction or SA's current, SA's best, and the
\* individuals of the GA's population and next generation.
\* ------------------------------------------------------------------------
Contexts ==
    {ctx, saBest} \cup {population[i].ctx : i \in DOMAIN population}
                  \cup {nextGen[i].ctx : i \in DOMAIN nextGen}

Placements(c) == Range(c.mutations)

RingOf(p) == Range(Ring(p.position[1], p.position[2], p.size[1], p.size[2]))

\* ring cells of p carrying a crop of the kind that serves p
ServingCells(c, p, kind) ==
    {cell \in RingOf(p) \cap DOMAIN c.crops :
        c.crops[cell].type = kind /\ p.instanceId \in c.crops[cell].mutations}

CropSatisfied(c, p) ==
    \A i \in DOMAIN parsed(p.mutationId).crops :
        Cardinality(ServingCells(c, p, parsed(p.mutationId).crops[i].key))
            >= parsed(p.mutationId).crops[i].value

\* the SA has applied at least one move to the context it was given
AfterSAMove == pc = "sa" /\ totalIterations > 0 /\ tabuList # <<>>

\* C1: in every state, for every non-isolated placement p and every required
\* crop (c, n) of p's mutation, the ring of p holds at least n crop cells of
\* kind c whose serving set contains p's instance id.
CropSatisfaction ==
    \A c \in Contexts : \A p \in Placements(c) : ~p.needsIsolation => CropSatisfied(c, p)

\* instances of kind d whose footprint the ring of p touches
TouchedInstances(c, p, d) ==
    {q \in Placements(c) : q.mutationId = d /\ FootprintOf(q) \cap RingOf(p) # {}}

DepSatisfied(c, p) ==
    \A i \in DOMAIN parsed(p.mutationId).mutations :
        Cardinality(TouchedInstances(c, p, parsed(p.mutationId).mutations[i].key))
            >= parsed(p.mutationId).mutations[i].value

\* C2: in every state, for every non-isolated placement p and every required
\* dependency (d, n) of p's mutation, the ring of p touches at least n
\* distinct instances of kind d present in the state.
DepSatisfaction ==
    \A c \in Contexts : \A p \in Placements(c) : ~p.needsIsolation => DepSatisfied(c, p)

\* C3: in every state, no cell is both a footprint cell of a placement and a
\* crop cell.
FootprintsCarryNoCrop ==
    \A c \in Contexts : \A p \in Placements(c) : FootprintOf(p) \cap DOMAIN c.crops = {}

\* C4: in every state, the footprints of two distinct placements are disjoint.
NoOverlap ==
    \A c \in Contexts : \A p, q \in Placements(c) :
        p # q => FootprintOf(p) \cap FootprintOf(q) = {}

\* C5: in every state, no ring cell of an isolated placement carries a crop.
IsolatedRingCropFree ==
    \A c \in Contexts : \A p \in Placements(c) :
        p.needsIsolation => RingOf(p) \cap DOMAIN c.crops = {}

IsolatedRingCropFreeWitness ==
    /\ AfterSAMove
    /\ \E p \in Placements(ctx) : p.needsIsolation
    /\ DOMAIN ctx.crops # {}

\* C6: in every state, the ring of an isolated placement meets no footprint
\* cell of another placement, whichever of the two was placed first.
IsolatedRingFootprintFree ==
    \A c \in Contexts : \A p, q \in Placements(c) :
        (p.needsIsolation /\ q # p) => RingOf(p) \cap FootprintOf(q) = {}

\* C7: in every state, every crop record's serving set is non-empty and each
\* of its members is the instance id of a placement present in the state.
CropLiveness ==
    \A c \in Contexts : \A cell \in DOMAIN c.crops :
        /\ c.crops[cell].mutations # {}
        /\ \A id \in c.crops[cell].mutations : HasInstance(c, id)

\* C8: in every state, every footprint cell and every crop cell belongs to
\* the unlocked set the state was constructed with.
UnlockedOnly ==
    \A c \in Contexts :
        /\ \A p \in Placements(c) : FootprintOf(p) \subseteq c.unlockedSlots
        /\ DOMAIN c.crops \subseteq c.unlockedSlots

UnlockedOnlyWitness ==
    /\ AfterSAMove
    /\ ctx.mutations # <<>>
    /\ DOMAIN ctx.crops # {}
    /\ ctx.unlockedSlots # Rect(0, 0, GRID_SIZE, GRID_SIZE)

\* C9: the workload-driven optimize call never throws, whatever the workload.
OptimizeNeverThrows == entry = "optimize" => pc # "thrown"

\* C10: whenever a strategy of optimize hands back its result, best is set
\* and is at least as fit as that result and as the best held before, so the
\* result returned in the end is at least as fit as every strategy that ran
\* (the bulk strategy included).
BestDominatesEveryStrategy ==
    [][(entry = "optimize" /\ pc = "sa" /\ pc' # "sa")
          => /\ best' # Null
             /\ ~FitnessGreater(Fit(saBest), best'.score)
             /\ (best # Null => ~FitnessGreater(best.score, best'.score))]_vars

\* ------------------------------------------------------------------------
\* Properties of the Placer: execute followed by remove, and the frame of
\* remove.
\* ------------------------------------------------------------------------
\* the board and the cell index agree with the placements and the crops
BoardConsistent(c) ==
    /\ c.occupied = UNION {FootprintOf(p) : p \in Placements(c)} \cup DOMAIN c.crops
    /\ DOMAIN c.cellToMutation = UNION {FootprintOf(p) : p \in Placements(c)}
    /\ \A p \in Placements(c) : \A cell \in FootprintOf(p) :
          c.cellToMutation[cell] = p.instanceId

\* the state invariants on one state
SatisfiesInvariants(c) ==
    /\ BoardConsistent(c)
    /\ c.emptyZones \cap DOMAIN c.crops = {}
    /\ \A p \in Placements(c) :
          /\ p.needsIsolation => RingOf(p) \cap c.unlockedSlots \subseteq c.emptyZones
          /\ FootprintOf(p) \subseteq c.unlockedSlots
          /\ FootprintOf(p) \cap DOMAIN c.crops = {}
          /\ \A q \in Placements(c) : q # p => FootprintOf(p) \cap FootprintOf(q) = {}
          /\ IF p.needsIsolation
             THEN /\ RingOf(p) \cap DOMAIN c.crops = {}
                  /\ \A q \in Placements(c) : q # p => RingOf(p) \cap FootprintOf(q) = {}
             ELSE CropSatisfied(c, p) /\ DepSatisfied(c, p)
    /\ DOMAIN c.crops \subseteq c.unlockedSlots
    /\ \A cell \in DOMAIN c.crops :
          /\ c.crops[cell].mutations # {}
          /\ \A id \in c.crops[cell].mutations : HasInstance(c, id)

\* an instance id of mutation m that no workload of the model uses
FreshId(m) == InstanceId(m, MaxQuantity)

SameButZones(c, d) ==
    /\ c.emptyZones \subseteq d.emptyZones
    /\ [d EXCEPT !.emptyZones = c.emptyZones] = c

ExecuteThenRemove(c, m, f) ==
    removePlacement(executePlacement(c, parsed(m), f, FreshId(m)), FreshId(m))

RoundTripAt(c, m, f) == f.ok => SameButZones(c, ExecuteThenRemove(c, m, f))

\* C11: for every state that satisfies the state invariants, every mutation
\* m, every anchor at which checkFeasibility returns a placement f, and an
\* instance id i not in the state, execute(s, m, f, i) followed by
\* remove(s, i) gives back the occupancy, the crop map and the placement map
\* of s, and only adds reserved-empty cells.
ExecuteRemoveRoundTrip ==
    \A c \in Contexts :
        SatisfiesInvariants(c) =>
            \A m \in WorkloadIds : \A a \in c.unlockedSlots :
                ~HasInstance(c, FreshId(m)) =>
                    RoundTripAt(c, m, checkFeasibility(c, parsed(m), a[1], a[2]))

\* a state with a placement where a second gloomgourd can reuse a crop
ExecuteRemoveRoundTripWitness ==
    /\ SatisfiesInvariants(ctx)
    /\ ctx.mutations # <<>>
    /\ \E a \in ctx.unlockedSlots :
          /\ checkFeasibility(ctx, parsed("gloomgourd"), a[1], a[2]).ok
          /\ checkFeasibility(ctx, parsed("gloomgourd"), a[1], a[2]).satisfiedCrops # <<>>
          /\ checkFeasibility(ctx, parsed("gloomgourd"), a[1], a[2]).cropsNeeded # <<>>

\* the crops that remove(i) deletes: those served by i alone
ServedOnlyBy(c, id) == {cell \in DOMAIN c.crops : c.crops[cell].mutations = {id}}

RemoveFrame(c, p, r) ==
    /\ r.mutations = SelectSeq(c.mutations, LAMBDA q : q # p)
    /\ r.occupied = c.occupied \ (FootprintOf(p) \cup ServedOnlyBy(c, p.instanceId))
    /\ DOMAIN r.crops = DOMAIN c.crops \ ServedOnlyBy(c, p.instanceId)
    /\ \A cell \in DOMAIN r.crops :
          /\ r.crops[cell].type = c.crops[cell].type
          /\ r.crops[cell].mutations = c.crops[cell].mutations \ {p.instanceId}
    /\ DOMAIN r.cellToMutation = DOMAIN c.cellToMutation \ FootprintOf(p)
    /\ \A cell \in DOMAIN r.cellToMutation : r.cellToMutation[cell] = c.cellToMutation[cell]
    /\ r.emptyZones = c.emptyZones
    /\ r.unlockedSlots = c.unlockedSlots

\* C12: remove(state, i) releases the footprint cells of i, drops i from the
\* serving set of every crop, deletes and releases exactly the crops whose
\* serving set becomes empty, and leaves every other placement, every other
\* crop and every reserved-empty cell as it was.
RemoveFrameEffect ==
    \A c \in Contexts : \A p \in Placements(c) :
        RemoveFrame(c, p, removePlacement(c, p.instanceId))

\* a state where removing one placement deletes a crop and keeps a shared one
RemoveFrameEffectWitness ==
    \E p \in Placements(ctx) :
        /\ ServedOnlyBy(ctx, p.instanceId) # {}
        /\ \E cell \in DOMAIN ctx.crops :
              /\ p.instanceId \in ctx.crops[cell].mutations
              /\ ctx.crops[cell].mutations # {p.instanceId}

\* ------------------------------------------------------------------------
\* Properties of the dependency count of checkFeasibility.
\* ------------------------------------------------------------------------
\* satisfiedMutations as the ring loop leaves it at anchor (x, y)
RecordedDependencies(c, mutation, x, y) ==
    SatisfiedMutationsOf(
        OfKind(Checked([i \in DOMAIN Ring(x, y, mutation.size[1], mutation.size[2]) |->
                           CellView(c, mutation,
                                    Ring(x, y, mutation.size[1], mutation.size[2])[i])]),
               "mutation"))

\* the ring loop of checkFeasibility is reached at anchor (x, y)
ReachesRingLoop(c, mutation, x, y) ==
    /\ ~mutation.requiresIsolation
    /\ canFitRect(c, x, y, mutation.size[1], mutation.size[2])
    /\ Rect(x, y, mutation.size[1], mutation.size[2]) \cap c.emptyZones = {}

\* the instances of kind d whose footprint touches the ring of the anchor
TouchingAt(c, mutation, x, y, d) ==
    {q \in Placements(c) :
        /\ q.mutationId = d
        /\ FootprintOf(q) \cap Range(Ring(x, y, mutation.size[1], mutation.size[2])) # {}}

\* the catalog mutations that depend on a mutation of the workloads
DependentIds ==
    {m \in MutationIds : \E i \in DOMAIN parsed(m).mutations :
                            parsed(m).mutations[i].key \in WorkloadIds}

CountsAt(c, mutation, x, y) ==
    \A i \in DOMAIN mutation.mutations :
        MutationCountOf(RecordedDependencies(c, mutation, x, y), mutation.mutations[i].key)
            = Cardinality(TouchingAt(c, mutation, x, y, mutation.mutations[i].key))

\* C13: at every anchor where checkFeasibility examines the ring, the number
\* it records for a required dependency kind d is the number of distinct
\* instances of kind d touching the ring: two instances of one kind count as
\* two.
CountsEachInstanceOnce ==
    \A c \in Contexts : \A m \in DependentIds : \A a \in c.unlockedSlots :
        ReachesRingLoop(c, parsed(m), a[1], a[2]) => CountsAt(c, parsed(m), a[1], a[2])

\* ------------------------------------------------------------------------
\* Properties of the greedy construction on dependency chains.
\* ------------------------------------------------------------------------
DependsOn(m2, m1) ==
    \E i \in DOMAIN parsed(m2).mutations : parsed(m2).mutations[i].key = m1

\* no instance is attempted before an instance of a mutation it depends on
DependenciesFirst(q) ==
    \A i, j \in DOMAIN q : i < j => ~DependsOn(q[i].mutationId, q[j].mutationId)

\* every placement of a dependent mutation has its dependencies in its ring
ChainPlaced(c) ==
    /\ \A k \in DOMAIN targets :
          \E p \in Placements(c) : p.mutationId = targets[k].mutationId
    /\ \A p \in Placements(c) : DepSatisfied(c, p)

\* C14: on a workload in which a mutation M2 depends on a mutation M1, the
\* greedy construction attempts the instances of M1 before M2, and the state
\* it returns for {M1: 1, M2: 1} holds both, M2 adjacent to M1.
GreedyPlacesDependencyFirst ==
    /\ DependenciesFirst(queue)
    /\ (pc = "done" /\ \A k \in DOMAIN targets : targets[k].quantity = 1)
          => ChainPlaced(ctx)

\* ------------------------------------------------------------------------
\* Properties of the objective-mode run
\* ------------------------------------------------------------------------
\* every placement of the state has its conditions satisfied where it stands
AllConditionsSatisfied(st) == InvalidIds(st) = {}

\* C15: in the annealing loop a candidate in which some placement's conditions
\* are violated is never accepted: after every iteration the current state and
\* the tracked best state satisfy the conditions of every placement they hold.
ViolatingCandidateNeverAccepted ==
    (entry = "objective" /\ pc = "loop")
        => AllConditionsSatisfied(curState) /\ AllConditionsSatisfied(bestState)

\* the final validation pass took a placement out of the best state
PassRemovedSomething ==
    /\ entry = "objective"
    /\ pc = "returned"
    /\ bestState.score < bestScore

AllSpecial(available) ==
    \A i \in DOMAIN available :
        \/ HasKey(getMutationData(available[i]).conditions, "special")
        \/ \E k \in DOMAIN getMutationData(available[i]).conditions :
              /\ getMutationData(available[i]).conditions[k].key \in MutationIds
              /\ getMutationData(available[i]).conditions[k].key \notin Range(available)

EmptyResult == OptimizerResult(createEmptyState, 0, 0, <<>>)

\* C17: when every mutation of the allowed pool is filtered out, optimizeLayout
\* never enters the annealing loop and returns an empty state with zero
\* iterations and an empty history.
AllSpecialReturnsEmpty ==
    (entry = "objective" /\ AllSpecial(availableMutations))
        => /\ pc # "loop"
           /\ iteration = 0
           /\ history = <<>>
           /\ bestState = createEmptyState
           /\ (pc = "returned" /\ ~abortRef) => uiResult = EmptyResult

AllSpecialReturnsEmptyWitness ==
    /\ entry = "objective"
    /\ AllSpecial(availableMutations)
    /\ availableMutations # <<>>
    /\ pc = "returned"
    /\ uiResult = EmptyResult

\* the interval of the progress checkpoints
ProgressInterval == Max2(1, maxIterations \div 50)

\* C18: once the abort signal has fired, the run stops at the next progress
\* checkpoint and returns the best state with the history collected so far,
\* and the caller holds that best state.  The signal can only fire while the
\* run waits for its timer, so the next checkpoint is the first one.
AbortStopsAtCheckpoint ==
    (entry = "objective" /\ abortRef)
        => /\ iteration <= ProgressInterval
           /\ pc = "returned" => (uiResult # NoResult /\ uiResult.state = bestState
                                                     /\ uiResult.history = history)

\* clone, then execute: the view of the clone after the placement
CloneThenExecute(id, feasible) ==
    LET c == clone(heap, OriginalRef)
    IN  View(ExecuteOn(c.heap, c.ref, parsed(id), feasible, InstanceId(id, 9)), c.ref)

\* execute, then clone: the view of the clone of the original after the placement
ExecuteThenClone(id, feasible) ==
    LET h == ExecuteOn(heap, OriginalRef, parsed(id), feasible, InstanceId(id, 9))
    IN  View(clone(h, OriginalRef).heap, clone(h, OriginalRef).ref)

\* C19: clone is an independent snapshot.  For a context and any placement
\* feasible in it, cloning and then executing the placement on the clone gives
\* the state that cloning after executing it on the original gives; and whatever
\* is executed or removed on a clone, the original stays as it was when cloned.
CloneIsIndependentSnapshot ==
    /\ (entry = "clone" /\ pc = "build")
          => \A id \in CloneWorkload :
                \A k \in DOMAIN FeasibleIn(View(heap, OriginalRef), id) :
                    CloneThenExecute(id, FeasibleIn(View(heap, OriginalRef), id)[k])
                        = ExecuteThenClone(id, FeasibleIn(View(heap, OriginalRef), id)[k])
    /\ (entry = "clone" /\ pc = "cloned") => View(heap, OriginalRef) = snapshot

\* an operation on the clone changed the mutations of a crop the original holds
CloneIsIndependentSnapshotWitness ==
    /\ entry = "clone"
    /\ pc = "cloned"
    /\ cloneOps > 0
    /\ View(heap, cloned) # snapshot
    /\ \E c \in DOMAIN snapshot.crops :
          \/ c \notin DOMAIN View(heap, cloned).crops
          \/ View(heap, cloned).crops[c].mutations # snapshot.crops[c].mutations

\* cells in row-major order: by row, and within a row by column
RowMajor(cells) ==
    \A i, j \in DOMAIN cells :
        i < j => \/ cells[i][2] < cells[j][2]
                 \/ (cells[i][2] = cells[j][2] /\ cells[i][1] < cells[j][1])

Board == Rect(0, 0, GRID_SIZE, GRID_SIZE)

\* the anchor (x, y) leaves a part of a w x h footprint off the board
OffBoard(x, y, w, h) == x < 0 \/ y < 0 \/ x > GRID_SIZE - w \/ y > GRID_SIZE - h

EdgeWorkload == {"gloomgourd", "lonelily", "godseed"}

\* C21: for every footprint (w, h), every state and every anchor (x, y) with
\* x < 0, y < 0, x > 10 - w or y > 10 - h, checkFeasibility returns null, so
\* the footprint of no placement extends outside the 10x10 board.
OffBoardAnchorInfeasible ==
    /\ \A m \in EdgeWorkload : \A a \in EdgeAnchors :
          OffBoard(a[1], a[2], parsed(m).size[1], parsed(m).size[2])
              => ~checkFeasibility(ctx, parsed(m), a[1], a[2]).ok
    /\ \A c \in Contexts : \A p \in Placements(c) : FootprintOf(p) \subseteq Board

\* a godseed stands against the edge of the board, and beside it an anchor off
\* the board has its whole footprint on unlocked cells nothing occupies
OffBoardAnchorInfeasibleWitness ==
    /\ entry = "edge"
    /\ \E p \in Placements(ctx) :
          /\ p.size = <<3, 3>>
          /\ FootprintOf(p) \cap {c \in Board : c[1] = GRID_SIZE - 1 \/ c[1] = 0} # {}
    /\ \E a \in EdgeAnchors :
          /\ OffBoard(a[1], a[2], 1, 1)
          /\ a \in ctx.unlockedSlots
          /\ a \notin ctx.occupied
          /\ \E q \in Placements(ctx) : a \in Range(RingRaw(q.position[1], q.position[2],
                                                            q.size[1], q.size[2]))

\* ------------------------------------------------------------------------
\* Properties of the entry point
\* ------------------------------------------------------------------------
\* no strategy has run: no context was built and no result was recorded
NoStrategyRan ==
    /\ strategy = 0
    /\ ctx = NoContext
    /\ queue = <<>>
    /\ saBest = NoContext
    /\ totalIterations = 0
    /\ population = <<>>
    /\ best = Null
    /\ results = <<>>

AllNull(grid) ==
    /\ DOMAIN grid = 0..(GRID_SIZE - 1)
    /\ \A y \in DOMAIN grid :
          /\ DOMAIN grid[y] = 0..(GRID_SIZE - 1)
          /\ \A x \in DOMAIN grid[y] : grid[y][x] = "null"

\* C22: for an empty workload and any unlocked set, optimizeLayout returns a
\* 10x10 grid in which every cell is null, an empty placement list and the
\* unlocked set it was given, and no strategy runs.
EmptyWorkloadReturnsEmptyLayout ==
    (entry = "optimize" /\ targets = <<>>)
        => /\ pc \in {"start", "done"}
           /\ NoStrategyRan
           /\ pc = "done" => /\ AllNull(layout.grid)
                             /\ layout.mutations = <<>>
                             /\ layout.unlockedSlots = slots

\* the call returned for an unlocked set that is a part of the board
EmptyWorkloadReturnsEmptyLayoutWitness ==
    /\ entry = "optimize"
    /\ targets = <<>>
    /\ pc = "done"
    /\ layout # NoLayout
    /\ slots # {}
    /\ slots # Board

\* ------------------------------------------------------------------------
\* Properties of a repeated call
\* ------------------------------------------------------------------------
\* C23: a strategy called again with the same catalog, workload and unlocked
\* set returns the state the first call returned.
RerunReturnsSameState ==
    (entry = "rerun" /\ pc = "done") => saBest = firstRun.ctx

\* ------------------------------------------------------------------------
\* Properties of the moves of SimulatedAnnealing
\* ------------------------------------------------------------------------
InstanceIds(c) == {c.mutations[k].instanceId : k \in DOMAIN c.mutations}

\* the anchors of the instances of a state
AnchorsOf(c) == {<<c.mutations[k].instanceId, c.mutations[k].position>> : k \in DOMAIN c.mutations}

\* the swap move generateSwapMove builds from the placements p1 and p2
SwapMove(p1, p2) ==
    [placement1 |-> p1, placement2 |-> p2,
     mutation1 |-> parsed(p1.mutationId), mutation2 |-> parsed(p2.mutationId)]

\* c with the anchors of p1 and p2 exchanged
Exchanged(c, p1, p2) ==
    (AnchorsOf(c) \ {<<p1.instanceId, p1.position>>, <<p2.instanceId, p2.position>>})
        \cup {<<p1.instanceId, p2.position>>, <<p2.instanceId, p1.position>>}

SwapOutcomeOk(c, p1, p2, r) ==
    /\ InstanceIds(r) = InstanceIds(c)
    /\ AnchorsOf(r) = Exchanged(c, p1, p2) \/ AnchorsOf(r) = AnchorsOf(c)

\* C24: a swap move applied to a state leaves the two placements at each
\* other's anchors or, when one of them cannot be placed there, puts both back
\* at their own anchors; either way the state holds the instance ids it held
\* before the move.
SwapKeepsInstances ==
    pc = "sa" =>
        \A i, j \in DOMAIN ctx.mutations :
            (i # j /\ SwapAllowed(ctx.mutations[i], ctx.mutations[j], tabuList,
                                  totalIterations + 1))
                => SwapOutcomeOk(ctx, ctx.mutations[i], ctx.mutations[j],
                                 applyMove(ctx, SwapMove(ctx.mutations[i], ctx.mutations[j]),
                                           "swap"))

\* the best is at least as fit as the current state
BestCoversCurrent == ~FitnessGreater(Fit(ctx), Fit(saBest))

\* C25: SimulatedAnnealing.optimize returns the best-by-fitness state it met.
\* The best starts as the initial state, is at every iteration at least as fit
\* as the state accepted as current, and is never replaced by a less fit one;
\* so the state returned is at least as fit as the initial state and as every
\* state that was current during the run.
ReturnsBestEncountered ==
    /\ [](pc = "sa" => BestCoversCurrent)
    /\ [][(pc = "sa" /\ pc' = "sa") => ~FitnessGreater(Fit(saBest), Fit(saBest'))]_vars

\* two moves were accepted and the run is about to return a best that is
\* fitter than its current state
ReturnsBestEncounteredWitness ==
    /\ pc = "sa"
    /\ totalIterations = MaxIterations
    /\ Len(tabuList) = MaxIterations
    /\ FitnessGreater(Fit(saBest), Fit(ctx))

\* ------------------------------------------------------------------------
\* Properties of the temperature loop
\* ------------------------------------------------------------------------
\* C26: SimulatedAnnealing.optimize terminates.  The loop ends when the idle
\* iterations have reached the convergence threshold while no reheat remains,
\* or when the temperature is no longer above the floor; a run reheats at most
\* SA_MAX_REHEATS times; and a temperature step that does not reheat lowers the
\* temperature, whatever the adaptive cooling rate.
AnnealingTerminates ==
    /\ <>(pc = "returned")
    /\ [](pc = "returned" =>
             \/ Converged(schedule) /\ schedule.reheats = SA_MAX_REHEATS
             \/ ~(schedule.temperature > SA_MIN_TEMP))
    /\ [](schedule.reheats <= SA_MAX_REHEATS)
    /\ [][(schedule' # schedule /\ schedule'.reheats = schedule.reheats)
             => schedule'.temperature < schedule.temperature]_vars

\* a run that reheated three times went on until the temperature reached the floor
AnnealingTerminatesWitness ==
    /\ entry = "schedule"
    /\ pc = "returned"
    /\ schedule.reheats = SA_MAX_REHEATS
    /\ ~Converged(schedule)
    /\ ~(schedule.temperature > SA_MIN_TEMP)

\* ------------------------------------------------------------------------
\* Properties of the mutation operator of GeneticOptimizer
\* ------------------------------------------------------------------------
\* the states the mutation operator is applied to: the state of the sequence
\* of operations, and in a generation the clone of a parent
MutateInputs ==
    IF pc = "ops" /\ queue = <<>> THEN {ctx}
    ELSE IF pc = "ga-fill" THEN {population[i].ctx : i \in DOMAIN population}
    ELSE {}

\* C27: the mutation operator removes one placement and places it again:
\* after the operator the individual holds the instance ids it held before.
MutateKeepsInstances ==
    \A c \in MutateInputs : \A r \in mutate(c, profile) : InstanceIds(r) = InstanceIds(c)

\* ------------------------------------------------------------------------
\* Properties of the tabu list
\* ------------------------------------------------------------------------
RelocateMove(toMove, feasible) ==
    [remove |-> toMove.instanceId, newPosition |-> feasible,
     mutation |-> parsed(toMove.mutationId)]

\* the anchors generateMove can pick for the placement p: its top five candidates
PickableAnchors(c, p, tabu, currentIteration) ==
    {RelocateCandidates(c, p, profile, tabu, currentIteration)[k].feasible.position :
        k \in 1..Min2(5, Len(RelocateCandidates(c, p, profile, tabu, currentIteration)))}

\* the move was accepted at iteration `at`: the anchors generateMove can pick
\* for the moved instance at the next iteration
PickableAfter(c, move, at) ==
    PickableAnchors(applyMove(c, move, "relocate"),
                    getPlacement(applyMove(c, move, "relocate"), move.remove),
                    addToTabu(tabuList, move, at), at + 1)

\* C28: after an accepted relocate of an instance away from an anchor, no
\* relocate move puts the instance back on that anchor while the tabu entry of
\* the move is live; the entry written at one iteration is live at the next.
TabuBansWayBack ==
    pc = "sa" =>
        \A i \in DOMAIN ctx.mutations :
            \A k \in 1..Min2(5, Len(RelocateCandidates(ctx, ctx.mutations[i], profile, tabuList,
                                                       totalIterations + 1))) :
                ctx.mutations[i].position \notin
                    PickableAfter(ctx,
                        RelocateMove(ctx.mutations[i],
                            RelocateCandidates(ctx, ctx.mutations[i], profile, tabuList,
                                               totalIterations + 1)[k].feasible),
                        totalIterations + 1)

\* the schedule of the step under way, up to and including its cooling
BeforeReheat(o) == Cooled(AfterIterations(schedule, o))

\* C29: every reheat raises the temperature: whenever the reheating test
\* holds after a temperature step's cooling, the temperature the reheat sets
\* is strictly higher than the temperature it replaces.
ReheatRaisesTemperature ==
    (pc = "cooling" /\ schedule.temperature > SA_MIN_TEMP) =>
        \A o \in StepOutcomes(schedule.steps, schedule.habit) :
            ReheatDue(BeforeReheat(o)) =>
                ReheatTemperature(BeforeReheat(o).reheats) > BeforeReheat(o).temperature

\* the loop is about to try a move on a state with placements
AttemptOn(moveType) ==
    /\ entry = "objective"
    /\ pc = "loop"
    /\ iteration < maxIterations
    /\ moveType \in Draw(iteration + 1).moves
    /\ DOMAIN curState.placedMutations # {}

\* what tryMoveMutation returns in this iteration
MoveAttempt ==
    tryMoveMutation(curState, getRandomPlacedMutation(curState, iteration + 1),
                    Draw(iteration + 1).head, slots)

\* what trySwapMutation can return in this iteration, one per mutation drawn
SwapAttempts ==
    {trySwapMutation(curState, getRandomPlacedMutation(curState, iteration + 1),
                     newMutationId, slots) :
        newMutationId \in SwapCandidates(
            curState.placedMutations[getRandomPlacedMutation(curState, iteration + 1)].mutationId)}

\* the states the loop can go on with after an attempt
ContinuedAfter(r) ==
    {Continued(accept, WithScore(r.st)) : accept \in AcceptChoices(r.placed, WithScore(r.st))}

\* C30: a MOVE_MUTATION or SWAP_MUTATION attempt that finds no feasible
\* placement leaves the loop with the state it had before the attempt: grid,
\* placements, crops with the mutations they serve, and score.
FailedAttemptKeepsState ==
    /\ AttemptOn("MOVE_MUTATION") =>
           (~MoveAttempt.placed => ContinuedAfter(MoveAttempt) = {curState})
    /\ AttemptOn("SWAP_MUTATION") =>
           \A r \in SwapAttempts : ~r.placed => ContinuedAfter(r) = {curState}

\* a move finds no cell for the mutation it removed, and the candidate it
\* worked on is left different from the state
FailedAttemptKeepsStateWitness ==
    /\ AttemptOn("MOVE_MUTATION")
    /\ ~MoveAttempt.placed
    /\ WithScore(MoveAttempt.st) # curState

\* C31: the bestScore of the returned result is never lower than a bestScore
\* the progress callback was given during the run.  The loop's bestScore only
\* grows, so the last value delivered is the highest.
ReturnedBestCoversProgress ==
    (entry = "objective" /\ pc = "returned" /\ progress # NoProgress) =>
        bestState.score >= progress.bestScore

\* the cells the records of a state account for
RecordedCells(c) == UNION {FootprintOf(p) : p \in Placements(c)} \cup DOMAIN c.crops

\* C32: in every state the engine produces, the occupied cells are exactly the
\* footprints of the recorded placements and the cells of the recorded crops:
\* no cell stays occupied without a recorded placement or crop.
OccupiedIsRecorded == \A c \in Contexts : c.occupied = RecordedCells(c)

\* the cell holds the id of a placement whose footprint covers it, or of a
\* crop recorded at it
CellIsRecorded(st, c) ==
    \/ /\ st.grid[c] \in DOMAIN st.placedMutations
       /\ c \in Range(getOccupiedCells(st.placedMutations[st.grid[c]].position,
                                       getGeometryCached(st.placedMutations[st.grid[c]].mutationId)))
    \/ /\ st.grid[c] \in DOMAIN st.placedCrops
       /\ st.placedCrops[st.grid[c]].position = c

GridIsRecorded(st) == \A c \in DOMAIN st.grid : st.grid[c] # NullId => CellIsRecorded(st, c)

CropsAreServing(st) ==
    \A id \in DOMAIN st.placedCrops :
        /\ st.placedCrops[id].forMutations # <<>>
        /\ \A m \in Range(st.placedCrops[id].forMutations) : m \in DOMAIN st.placedMutations

\* the candidates of the iteration under way, one per move the loop can try
CandidatesOf(st) ==
    {tryAddMutation(st, mutationId, Draw(iteration + 1).head, slots).st :
        mutationId \in Range(placeableMutations)}
    \cup (IF DOMAIN st.placedMutations = {} THEN {}
          ELSE {tryRemoveMutation(st, getRandomPlacedMutation(st, iteration + 1)).st,
                MoveAttempt.st}
               \cup {r.st : r \in SwapAttempts})

\* C33: in every objective-mode state the moves reach (the loop's state, its
\* best state and the candidate of every move, failed ones included), each
\* non-null grid cell holds the id of a placement or crop recorded at that
\* cell, every crop serves at least one mutation, and every id a crop lists
\* is a placement of the state.
ObjectiveStateIsConsistent ==
    entry = "objective" =>
        /\ \A st \in {curState, bestState} : GridIsRecorded(st) /\ CropsAreServing(st)
        /\ (pc = "loop" /\ iteration < maxIterations) =>
               \A st \in CandidatesOf(curState) : GridIsRecorded(st) /\ CropsAreServing(st)

\* a removal was accepted in a state where mutations share a crop
ObjectiveStateIsConsistentWitness ==
    /\ entry = "objective"
    /\ pc = "loop"
    /\ curState.score < bestScore
    /\ \E id \in DOMAIN curState.placedCrops : Len(curState.placedCrops[id].forMutations) >= 2
    /\ \E id \in DOMAIN bestState.placedCrops :
          id \in DOMAIN curState.placedCrops
          /\ Len(curState.placedCrops[id].forMutations) < Len(bestState.placedCrops[id].forMutations)

\* one mutation holds at least 70% of the workload and is 1x1 and non-isolated
BulkEligible ==
    /\ findDominantMutation(targets, targetCount) # 0
    /\ parsed(targets[findDominantMutation(targets, targetCount)].mutationId).size = <<1, 1>>
    /\ ~parsed(targets[findDominantMutation(targets, targetCount)].mutationId).requiresIsolation

\* strategy 0 is under way
BulkStrategyRuns == strategy = 0 /\ pc \in {"bulk", "extra", "sa"}

\* a result of strategy 0 is among the results compared
BulkResultCompared ==
    \/ \E i \in DOMAIN results : results[i].strategy = StrategyLabel(0)
    \/ best # Null /\ best.strategy = StrategyLabel(0)

\* C34: the bulk strategy runs exactly when one mutation holds at least 70% of
\* the workload and is 1x1 and non-isolated; for every other workload no bulk
\* strategy runs and no bulk result is compared.
BulkOnlyWhenEligible ==
    entry \in {"optimize", "optimizeAll"} =>
        /\ (BulkStrategyRuns \/ BulkResultCompared) => BulkEligible
        /\ (pc = "greedy" /\ strategy = 1 /\ BulkEligible /\ entry = "optimizeAll") =>
               BulkResultCompared

\* at least one positive tag and no negative tag
OnlyPositiveEffects(mutation) ==
    /\ \E e \in mutation.effects : e \in POSITIVE_EFFECTS
    /\ \A e \in mutation.effects : e \notin NEGATIVE_EFFECTS

\* C35: the predicate the synergy scoring uses is true for a mutation exactly
\* when its effect tags hold at least one positive tag and none of
\* harvest_loss, water_drain, xp_loss; checked for every mutation of the catalog
\* as the call parses it.
PositivePredicateIsOnlyPositive ==
    \A id \in MutationIds : hasPositiveEffect(parsed(id)) <=> OnlyPositiveEffects(parsed(id))

\* the anchor of a w x h placement lies on an edge of the board
OnBoardEdge(p) ==
    \/ p.position[1] = 0 \/ p.position[1] = GRID_SIZE - p.size[1]
    \/ p.position[2] = 0 \/ p.position[2] = GRID_SIZE - p.size[2]

\* greedy.solve has just returned its context
GreedyHasReturned == pc = "sa" /\ totalIterations = 0 /\ tabuList = <<>> /\ saBest = ctx

EligibleHelpers == {getPositiveEffectMutations[i].id : i \in DOMAIN getPositiveEffectMutations}

\* size of a smallest set of eligible candidates that covers the missing
\* types (some member has to cover any given missing type); NoCover when
\* there is none
NoCover == Cardinality(MutationIds) + 1

RECURSIVE MinCoverSize(_)
MinCoverVia(missing, t) ==
    LET sizes == {MinCoverSize(missing \ getCoveredEffectTypes({c})) :
                     c \in {e \in EligibleHelpers : t \in getCoveredEffectTypes({e})}}
    IN  IF sizes = {} THEN NoCover
        ELSE 1 + (CHOOSE n \in sizes : \A m \in sizes : n <= m)

MinCoverSize(missing) ==
    IF missing = {} THEN 0 ELSE MinCoverVia(missing, CHOOSE t \in missing : TRUE)

MissingTypes(available) ==
    Range(GODSEED_REQUIRED_EFFECT_TYPES) \ getCoveredEffectTypes(available \ {"godseed"})

\* the helpers the parser answers for godseed
GodseedHelpers == {cache["godseed"].mutations[i].key : i \in DOMAIN cache["godseed"].mutations}

\* C37: whenever the parser belongs to the present selection and some set of
\* eligible candidates completes the six required effect types, the helpers
\* it answers for godseed are as few as any such set.
HelpersAreMinimum ==
    (entry = "unlock" /\ pc = "parsed" /\ MinCoverSize(MissingTypes(unlockedMutations)) < NoCover)
        => Cardinality(GodseedHelpers) <= MinCoverSize(MissingTypes(unlockedMutations))

\* the cells the render draws: [rowIndex][colIndex] with a non-null cell
DrawnCells ==
    {cell \in (0..(GRID_SIZE - 1)) \X (0..(GRID_SIZE - 1)) :
        layout.grid[cell[1]][cell[2]].type # "null"}

\* C38: once the layout view has set the layout the engine returned, every
\* non-null cell at grid[row][col] lies on a slot the user unlocked at
\* [row][col].
LayoutOnUnlockedSlots ==
    (unlockedGrid # NoGrid /\ pc = "done") => DrawnCells \subseteq unlockedGrid

\* the swap moves generateSwapMove can return in the present SA iteration
SwapMoves ==
    {[placement1 |-> ctx.mutations[i], placement2 |-> ctx.mutations[j],
      mutation1 |-> parsed(ctx.mutations[i].mutationId),
      mutation2 |-> parsed(ctx.mutations[j].mutationId)] :
        <<i, j>> \in {ij \in (DOMAIN ctx.mutations) \X (DOMAIN ctx.mutations) :
                        /\ ij[1] # ij[2]
                        /\ SwapAllowed(ctx.mutations[ij[1]], ctx.mutations[ij[2]], tabuList,
                                       totalIterations + 1)}}

\* applyMove's swap branch: the state both checks run on
SwapCleared(move) ==
    removePlacement(removePlacement(ctx, move.placement1.instanceId),
                    move.placement2.instanceId)

SwapFeasible1(move) ==
    checkFeasibility(SwapCleared(move), move.mutation1, move.placement2.position[1],
                     move.placement2.position[2])

SwapFeasible2(move) ==
    checkFeasibility(SwapCleared(move), move.mutation2, move.placement1.position[1],
                     move.placement1.position[2])

\* the state feasible2 is executed on
SwapAfterFirst(move) ==
    executePlacement(SwapCleared(move), move.mutation1, SwapFeasible1(move),
                     move.placement1.instanceId)

\* C39: in every SA iteration, a swap that executes its two placements
\* executes for the second one the placement checkFeasibility computes on the
\* state it is executed on, the one left by the first execution.
SwapExecutesOnCheckedState ==
    (pc = "sa" /\ totalIterations < MaxIterations) =>
        \A move \in SwapMoves :
            (SwapFeasible1(move).ok /\ SwapFeasible2(move).ok) =>
                SwapFeasible2(move) =
                    checkFeasibility(SwapAfterFirst(move), move.mutation2,
                                     move.placement1.position[1],
                                     move.placement1.position[2])

====
